---- MODULE Spec2Model ----
(***************************************************************************)
(* Rotary-Dial-Tester: the pulse-cycle decoder (RotaryCycleEngine), the    *)
(* two sampling loops that drive it (RotaryTester on the main thread,      *)
(* MeasurementWorker in a worker) and the request/response client of the   *)
(* worker (MeasurementWorkerClient).                                       *)
(*                                                                         *)
(* Time is the engine clock in whole milliseconds.  A nullable value of    *)
(* the source (boolean|null, number|null, object|null) is a sequence of    *)
(* length at most one: << >> is null, <<v>> is the value v.  The debounce  *)
(* setting is a number of tenths of a millisecond, so that a setting of    *)
(* 2.5 ms is 25; an argument that is not a number (NaN) is null.           *)
(***************************************************************************)
EXTENDS Integers, Sequences, FiniteSets, TLC

(***************************************************************************)
(* Bounds of the model.                                                    *)
(***************************************************************************)
\* the engine clock stops advancing at this time
MaxNow == 360

\* suppress-line edges recorded in one buffer
MaxNsrEdges == 1

\* a dialling session is followed for this many milliseconds
DialSpan == 360

(***************************************************************************)
(* Inputs.                                                                 *)
(***************************************************************************)
\* clock advances between two samples: a dial half-period (two of them reach
\* the 100 ms limit exactly, inside the 90..100 ms window) and a pause beyond
\* the 100 ms window
Steps == {50, 105}

\* n milliseconds in tenths of a millisecond
Ms(n) == 10 * n

\* debounce values a host may ask for: -4 ms and 20 ms
DebounceInputs == { <<Ms(-4)>>, <<Ms(20)>> }

\* arguments of RotaryCycleEngine.setDebounceMs: those, 2.5 ms, and a value
\* that is not a number
DebounceArguments == DebounceInputs \cup { <<25>>, << >> }

\* a signal snapshot as SerialPort.getSignals() returns it
Signals == [dataCarrierDetect : BOOLEAN, dataSetReady : BOOLEAN, ringIndicator : BOOLEAN]

NULL == << >>

Some(v) == <<v>>

Max(a, b) == IF a >= b THEN a ELSE b

Min(a, b) == IF a <= b THEN a ELSE b

(***************************************************************************)
(* RotaryCycleEngine                                                       *)
(***************************************************************************)
WARNING_DIAL_SPEED == "warnings.dialSpeed"

WARNING_PULSE_PAUSE_RATIO == "warnings.pulsePauseRatio"

WARNING_NSI_OPEN == "warnings.nsiOpen"

\* Math.round on the model's whole-millisecond values
Round(x) == x

\* a quotient cut off instead of rounded
RoundDiv_Floor(num, den) == num \div den

\* Math.round(num / den) for num >= 0, den > 0: halves round up
RoundDiv(num, den) == (2 * num + den) \div (2 * den)

\* constructor followed by resetAll()
NewEngine ==
    [ nsiTimes |-> << >>, nsaTimes |-> << >>, nsrTimes |-> << >>,
      nsiState |-> NULL, nsaState |-> NULL, nsrState |-> NULL,
      hasEvaluatedCycle |-> FALSE, nsaMissing |-> TRUE, debounceMs |-> 0 ]

resetAll(e) ==
    [ e EXCEPT !.nsiTimes = << >>, !.nsaTimes = << >>, !.nsrTimes = << >>,
               !.nsiState = NULL, !.nsaState = NULL, !.nsrState = NULL,
               !.hasEvaluatedCycle = FALSE, !.nsaMissing = TRUE ]

\* a reset that leaves the suppress log alone
resetCycle_KeepsNsr(e) ==
    [ e EXCEPT !.nsiTimes = << >>, !.nsaTimes = << >>,
               !.hasEvaluatedCycle = FALSE, !.nsaMissing = TRUE ]

\* a reset that forgets the line values as well
resetCycle_ClearsLines(e) ==
    [ e EXCEPT !.nsiTimes = << >>, !.nsaTimes = << >>, !.nsrTimes = << >>,
               !.nsiState = << >>, !.nsaState = << >>, !.nsrState = << >>,
               !.hasEvaluatedCycle = FALSE, !.nsaMissing = TRUE ]

resetCycle(e) ==
    [ e EXCEPT !.nsiTimes = << >>, !.nsaTimes = << >>, !.nsrTimes = << >>,
               !.hasEvaluatedCycle = FALSE, !.nsaMissing = TRUE ]

\* "Number(ms) || 0"
NumberOrZero(ms) == IF ms = << >> THEN 0 ELSE ms[1]

setDebounceMs(e, ms) ==
    [ e EXCEPT !.debounceMs = Max(0, Min(Ms(10), NumberOrZero(ms))) ]

\* an initialisation that logs an edge at 0 for a primary line that changed
initializeFromSignals_LogsChange(e, signals) ==
    [ engine |-> [ e EXCEPT !.nsiState = Some(signals.dataCarrierDetect),
                            !.nsrState = Some(signals.dataSetReady),
                            !.nsaState = Some(signals.ringIndicator),
                            !.nsiTimes = IF e.nsiState # Some(signals.dataCarrierDetect)
                                         THEN Append(@, 0) ELSE @ ],
      warningKey |-> IF ~signals.dataCarrierDetect THEN Some("nsiOpen") ELSE << >> ]

\* an initialisation that never reports the open primary line
initializeFromSignals_Silent(e, signals) ==
    [ engine |-> [ e EXCEPT !.nsiState = Some(signals.dataCarrierDetect),
                            !.nsrState = Some(signals.dataSetReady),
                            !.nsaState = Some(signals.ringIndicator) ],
      warningKey |-> NULL ]

initializeFromSignals(e, signals) ==
    [ engine |-> [ e EXCEPT !.nsiState = Some(signals.dataCarrierDetect),
                            !.nsrState = Some(signals.dataSetReady),
                            !.nsaState = Some(signals.ringIndicator) ],
      warningKey |-> IF ~signals.dataCarrierDetect THEN Some(WARNING_NSI_OPEN) ELSE NULL ]

\* #handleNsa appending the third edge to the buffer it found
handleNsa_NoReset(e, newState, t) ==
    IF e.nsaState = NULL THEN [ e EXCEPT !.nsaState = Some(newState) ]
    ELSE IF Some(newState) = e.nsaState THEN e
    ELSE [ e EXCEPT !.nsaTimes = Append(e.nsaTimes, t),
                    !.nsaState = Some(newState),
                    !.nsaMissing = FALSE ]

handleNsa(e, newState, t) ==
    IF e.nsaState = NULL THEN [ e EXCEPT !.nsaState = Some(newState) ]
    ELSE IF Some(newState) = e.nsaState THEN e
    ELSE LET r == IF Len(e.nsaTimes) >= 2 THEN resetCycle(e) ELSE e
         IN  [ r EXCEPT !.nsaTimes = Append(r.nsaTimes, t),
                        !.nsaState = Some(newState),
                        !.nsaMissing = FALSE ]

handleNsr(e, newState, t) ==
    IF e.nsrState = NULL THEN [ e EXCEPT !.nsrState = Some(newState) ]
    ELSE IF Some(newState) = e.nsrState THEN e
    ELSE [ e EXCEPT !.nsrTimes = Append(e.nsrTimes, t), !.nsrState = Some(newState) ]

handleNsi(e, newState, t) ==
    IF e.nsiState = NULL THEN [ e EXCEPT !.nsiState = Some(newState) ]
    ELSE IF Some(newState) = e.nsiState THEN e
    ELSE [ e EXCEPT !.nsiTimes = Append(e.nsiTimes, t), !.nsiState = Some(newState) ]

\* the open phases subtracted the wrong way round
RECURSIVE OpenTotalFrom_Reversed(_, _)
OpenTotalFrom_Reversed(tt, i) ==
    IF i + 1 < Len(tt) THEN (tt[i + 1] - tt[i + 2]) + OpenTotalFrom_Reversed(tt, i + 2) ELSE 0

\* nsiOpenTotalMs: for (i = 2; i + 1 < length; i += 2) sum += t[i+1] - t[i]
\* (0-based i of the source is 1-based i+1 here)
RECURSIVE OpenTotalFrom(_, _)
OpenTotalFrom(tt, i) ==
    IF i + 1 < Len(tt) THEN (tt[i + 2] - tt[i + 1]) + OpenTotalFrom(tt, i + 2) ELSE 0

\* nsiClosedTotalMs: for (i = 2; i < length; i += 2) sum += t[i] - t[i-1]
RECURSIVE ClosedTotalFrom(_, _)
ClosedTotalFrom(tt, i) ==
    IF i < Len(tt) THEN (tt[i + 1] - tt[i]) + ClosedTotalFrom(tt, i + 2) ELSE 0

\* the pulse count taken as the digit
digitOf_Pulses(pulses) == pulses

\* "const digit = pulses === 10 ? 0 : pulses"
digitOf(pulses) == IF pulses = 10 THEN 0 ELSE pulses

\* the warnings pushed in the other order, the ratio compared before rounding
\* down to the tens
cycleWarnings_RatioFirst(speedOff, dutyClosed) ==
    (IF dutyClosed < 10 \/ dutyClosed >= 70 THEN <<WARNING_PULSE_PAUSE_RATIO>> ELSE << >>)
    \o (IF speedOff THEN <<WARNING_DIAL_SPEED>> ELSE << >>)

\* "const warnings = []" and the two pushes of computeCycle; speedOff is
\* "fHz < 7 || fHz > 13"
cycleWarnings(speedOff, dutyClosed) ==
    (IF speedOff THEN <<WARNING_DIAL_SPEED>> ELSE << >>)
    \o (IF dutyClosed < 10 \/ dutyClosed > 70 THEN <<WARNING_PULSE_PAUSE_RATIO>> ELSE << >>)

\* computeCycle accepting "raw.length < 3" as too short instead of "< 4"
computeCycle_MinThree(e) ==
    IF Len(e.nsiTimes) < 3 THEN NULL
    ELSE Some([ nnMs |-> e.nsiTimes[1],
                nsiTimesMs |-> [ i \in 1..Len(e.nsiTimes) |-> e.nsiTimes[i] - e.nsiTimes[1] ],
                pulses |-> Len(e.nsiTimes) \div 2,
                digit |-> Len(e.nsiTimes) \div 2,
                fHz10 |-> 0, dutyClosed |-> 0, nsaOpenMs |-> NULL, nsrOnMs |-> NULL,
                debounceMs |-> e.debounceMs, hasNsa |-> FALSE, hasNsr |-> FALSE,
                warnings |-> << >> ])

\* computeCycle reporting the first secondary edge whatever the log holds
computeCycle_FirstSecondary(e) ==
    IF Len(e.nsiTimes) < 4 THEN NULL
    ELSE
    LET raw == e.nsiTimes
        nn == raw[1]
        normalizedTimes == [ i \in 1..Len(raw) |-> Max(0, Round(raw[i] - nn)) ]
        n == Len(normalizedTimes)
        pulses == n \div 2
        digit == digitOf(pulses)
        nsaOpenMs == IF Len(e.nsaTimes) > 0
                     THEN IF Len(e.nsaTimes) >= 2
                          THEN Some(Max(0, Round(e.nsaTimes[1] - nn)))
                          ELSE Some(Max(0, Round(e.nsaTimes[1] - nn)))
                     ELSE NULL
        nsrOnMs == IF Len(e.nsrTimes) > 0
                   THEN Some(Max(0, Round(e.nsrTimes[1] - nn)))
                   ELSE NULL
        nsiOpenTotalMs == OpenTotalFrom(normalizedTimes, 2)
        nsiClosedTotalMs == ClosedTotalFrom(normalizedTimes, 2)
        total == nsiOpenTotalMs + nsiClosedTotalMs
        \* twice denomPeriods = Math.max(1, length / 2 - 1), which is a half for odd lengths
        denomPeriods2 == Max(2, n - 2)
        \* fHz = 1000 / (total / denomPeriods) = 500 * denomPeriods2 / total, or 0
        fHzBelow7 == IF total > 0 THEN 500 * denomPeriods2 < 7 * total ELSE TRUE
        fHzAbove13 == IF total > 0 THEN 500 * denomPeriods2 > 13 * total ELSE FALSE
        \* Math.round(fHz * 10) / 10, kept in tenths of a hertz
        fHz10 == IF total > 0 THEN RoundDiv(5000 * denomPeriods2, total) ELSE 0
        dutyClosed == IF total > 0 THEN RoundDiv(nsiClosedTotalMs * 100, total) ELSE 0
        warnings == cycleWarnings(fHzBelow7 \/ fHzAbove13, dutyClosed)
    IN  Some([ nnMs |-> nn, nsiTimesMs |-> normalizedTimes, pulses |-> pulses,
               digit |-> digit, fHz10 |-> fHz10, dutyClosed |-> dutyClosed,
               nsaOpenMs |-> nsaOpenMs, nsrOnMs |-> nsrOnMs,
               debounceMs |-> e.debounceMs,
               hasNsa |-> nsaOpenMs # NULL, hasNsr |-> nsrOnMs # NULL,
               warnings |-> warnings ])

computeCycle(e) ==
    IF Len(e.nsiTimes) < 4 THEN NULL
    ELSE
    LET raw == e.nsiTimes
        nn == raw[1]
        normalizedTimes == [ i \in 1..Len(raw) |-> Max(0, Round(raw[i] - nn)) ]
        n == Len(normalizedTimes)
        pulses == n \div 2
        digit == digitOf(pulses)
        nsaOpenMs == IF Len(e.nsaTimes) > 0
                     THEN IF Len(e.nsaTimes) >= 2
                          THEN Some(Max(0, Round(e.nsaTimes[2] - nn)))
                          ELSE Some(Max(0, Round(e.nsaTimes[1] - nn)))
                     ELSE NULL
        nsrOnMs == IF Len(e.nsrTimes) > 0
                   THEN Some(Max(0, Round(e.nsrTimes[1] - nn)))
                   ELSE NULL
        nsiOpenTotalMs == OpenTotalFrom(normalizedTimes, 2)
        nsiClosedTotalMs == ClosedTotalFrom(normalizedTimes, 2)
        total == nsiOpenTotalMs + nsiClosedTotalMs
        \* twice denomPeriods = Math.max(1, length / 2 - 1), which is a half for odd lengths
        denomPeriods2 == Max(2, n - 2)
        \* fHz = 1000 / (total / denomPeriods) = 500 * denomPeriods2 / total, or 0
        fHzBelow7 == IF total > 0 THEN 500 * denomPeriods2 < 7 * total ELSE TRUE
        fHzAbove13 == IF total > 0 THEN 500 * denomPeriods2 > 13 * total ELSE FALSE
        \* Math.round(fHz * 10) / 10, kept in tenths of a hertz
        fHz10 == IF total > 0 THEN RoundDiv(5000 * denomPeriods2, total) ELSE 0
        dutyClosed == IF total > 0 THEN RoundDiv(nsiClosedTotalMs * 100, total) ELSE 0
        warnings == cycleWarnings(fHzBelow7 \/ fHzAbove13, dutyClosed)
    IN  Some([ nnMs |-> nn, nsiTimesMs |-> normalizedTimes, pulses |-> pulses,
               digit |-> digit, fHz10 |-> fHz10, dutyClosed |-> dutyClosed,
               nsaOpenMs |-> nsaOpenMs, nsrOnMs |-> nsrOnMs,
               debounceMs |-> e.debounceMs,
               hasNsa |-> nsaOpenMs # NULL, hasNsr |-> nsrOnMs # NULL,
               warnings |-> warnings ])

\* the first branch of #maybeFinalize: the buffer is discarded
FinalizeResets(e, t) ==
    LET ni == Len(e.nsiTimes)
    IN  /\ Len(e.nsaTimes) = 0 /\ ni > 0
        /\ t - e.nsiTimes[ni] > 90
        /\ (ni < 4 \/ e.hasEvaluatedCycle)

\* #maybeFinalize without "this.hasEvaluatedCycle = true"
maybeFinalize_NeverMarks(e, t) ==
    LET ni == Len(e.nsiTimes)
        dt == t - e.nsiTimes[ni]
    IN  IF FinalizeResets(e, t)
        THEN [ engine |-> resetCycle(e), cycle |-> NULL ]
        ELSE IF ni > 2 /\ ~e.hasEvaluatedCycle /\ dt > 100
        THEN [ engine |-> e, cycle |-> computeCycle(e) ]
        ELSE [ engine |-> e, cycle |-> NULL ]

\* #maybeFinalize evaluating after "dt > 90" instead of "dt > 100"
maybeFinalize_Early(e, t) ==
    LET ni == Len(e.nsiTimes)
        dt == t - e.nsiTimes[ni]
    IN  IF FinalizeResets(e, t)
        THEN [ engine |-> resetCycle(e), cycle |-> NULL ]
        ELSE IF ni > 2 /\ ~e.hasEvaluatedCycle /\ dt > 90
        THEN [ engine |-> [ e EXCEPT !.hasEvaluatedCycle = TRUE ], cycle |-> computeCycle(e) ]
        ELSE [ engine |-> e, cycle |-> NULL ]

\* #maybeFinalize leaving a stale buffer in place
maybeFinalize_KeepsStale(e, t) ==
    LET ni == Len(e.nsiTimes)
        dt == t - e.nsiTimes[ni]
    IN  IF FinalizeResets(e, t)
        THEN [ engine |-> e, cycle |-> NULL ]
        ELSE IF ni > 2 /\ ~e.hasEvaluatedCycle /\ dt > 100
        THEN [ engine |-> [ e EXCEPT !.hasEvaluatedCycle = TRUE ], cycle |-> computeCycle(e) ]
        ELSE [ engine |-> e, cycle |-> NULL ]

\* #maybeFinalize emptying the buffer it has just evaluated
maybeFinalize_ClearsOnReturn(e, t) ==
    LET ni == Len(e.nsiTimes)
        dt == t - e.nsiTimes[ni]
    IN  IF FinalizeResets(e, t)
        THEN [ engine |-> resetCycle(e), cycle |-> NULL ]
        ELSE IF ni > 2 /\ ~e.hasEvaluatedCycle /\ dt > 100
        THEN [ engine |-> [ resetCycle(e) EXCEPT !.hasEvaluatedCycle = TRUE ],
               cycle |-> computeCycle(e) ]
        ELSE [ engine |-> e, cycle |-> NULL ]

\* the result is the engine after the call and the value returned
maybeFinalize(e, t) ==
    LET ni == Len(e.nsiTimes)
        dt == t - e.nsiTimes[ni]
    IN  IF FinalizeResets(e, t)
        THEN [ engine |-> resetCycle(e), cycle |-> NULL ]
        ELSE IF ni > 2 /\ ~e.hasEvaluatedCycle /\ dt > 100
        THEN [ engine |-> [ e EXCEPT !.hasEvaluatedCycle = TRUE,
                                     !.nsaMissing = IF Len(e.nsaTimes) > 0 /\ ni >= 4
                                                    THEN FALSE ELSE e.nsaMissing ],
               cycle |-> computeCycle(e) ]
        ELSE [ engine |-> e, cycle |-> NULL ]

processStableSignals(e, signals, t) ==
    maybeFinalize(
        handleNsi(
            handleNsr(
                handleNsa(e, signals.ringIndicator, t),
                signals.dataSetReady, t),
            signals.dataCarrierDetect, t),
        t)

\* the edges recorded up to #maybeFinalize in one processStableSignals call
handled(e, signals, t) ==
    handleNsi(handleNsr(handleNsa(e, signals.ringIndicator, t), signals.dataSetReady, t),
              signals.dataCarrierDetect, t)

\* #handleNsa clears the buffers before it records the edge
NsaResets(e, signals) ==
    /\ e.nsaState # NULL
    /\ Some(signals.ringIndicator) # e.nsaState
    /\ Len(e.nsaTimes) >= 2

\* a call of processStableSignals clears the edge buffers itself
ResetsItself(e, signals, t) ==
    NsaResets(e, signals) \/ FinalizeResets(handled(e, signals, t), t)

\* the lines of a snapshot that differ from the values the engine holds
ChangedLines(e, signals) ==
    (IF e.nsiState # NULL /\ e.nsiState # Some(signals.dataCarrierDetect) THEN {"nsi"} ELSE {})
    \cup (IF e.nsaState # NULL /\ e.nsaState # Some(signals.ringIndicator) THEN {"nsa"} ELSE {})
    \cup (IF e.nsrState # NULL /\ e.nsrState # Some(signals.dataSetReady) THEN {"nsr"} ELSE {})

\* the lines that change between two consecutive samples
SampleChanges == {{}, {"nsi"}, {"nsa"}, {"nsr"}, {"nsi", "nsa"}}

\* the suppress line toggles at most MaxNsrEdges times per buffer
SuppressBound(e, signals) ==
    \/ e.nsrState = NULL
    \/ Some(signals.dataSetReady) = e.nsrState
    \/ Len(e.nsrTimes) < MaxNsrEdges

(***************************************************************************)
(* State.                                                                  *)
(***************************************************************************)
VARIABLES
    engine,             \* the RotaryCycleEngine instance
    now,                \* the engine clock (performance.now())
    cycle,              \* what the step just taken returned to its caller (a Cycle or null)
    cyclesSinceReset,   \* Cycles returned since the edge buffers were last reset
    burst,              \* the burst of primary edges the samples are recording
    mode,               \* RuntimeBridge.#measurementMode
    running,            \* RotaryTester.running, MeasurementWorker running
    activePort,         \* a port is held (serial.isOpen, MeasurementWorker activePort)
    loopPromise,        \* MeasurementWorker loopPromise is set
    starts,             \* start calls suspended in their initial line read
    loops,              \* the activations of the loop function, each at its await
    disc,               \* where the disconnect call is
    seen,               \* what the host's observers have seen so far
    client,             \* the MeasurementWorkerClient and the promises it returned
    clientSeen,         \* which message settled which request
    worker,             \* MeasurementWorker: disposed, and the messages it was sent
    called,             \* the setDebounceMs or resetCycle call just made on the engine, if any
    diagram,            \* the DiagramRuntime instance
    ui,                 \* the analysis buttons (UiRuntime) and main.mjs activeAnalysis
    shown,              \* the cycles added since the last clear, and the last analysis request
    serial              \* the SerialManager, its ports and the calls in flight on it

hostVars == <<mode, running, activePort, loopPromise, starts, loops, disc, seen>>

appVars == <<diagram, ui, shown, serial>>

clientVars == <<client, clientSeen, worker, called, appVars>>

vars == <<engine, now, cycle, cyclesSinceReset, burst,
          mode, running, activePort, loopPromise, starts, loops, disc, seen,
          client, clientSeen, worker, called, diagram, ui, shown, serial>>

\* nothing observed
NothingSeen ==
    [ failed |-> FALSE, errors |-> 0, afterFail |-> FALSE,
      paused |-> FALSE, stopKept |-> TRUE, startKept |-> TRUE,
      resetEarly |-> FALSE, disconnected |-> FALSE, started |-> << >>,
      sinceStop |-> "none", startFailed |-> << >> ]

DEFAULT_REQUEST_TIMEOUT_MS == 5000

\* "Math.max(100, Number(options.requestTimeoutMs) || DEFAULT_REQUEST_TIMEOUT_MS)"
\* for an option that is absent (null here) or a number
requestTimeoutMs(option) ==
    Max(100, IF option = NULL \/ option[1] = 0 THEN DEFAULT_REQUEST_TIMEOUT_MS ELSE option[1])

\* new MeasurementWorkerClient(): no worker yet, no request sent; clock is
\* the time of the page's timers, timers the time each running timer is due
NewClient ==
    [ worker |-> FALSE, nextRequestId |-> 1, pending |-> {}, promises |-> << >>,
      connected |-> FALSE, running |-> FALSE, disposing |-> NULL,
      requestTimeoutMs |-> requestTimeoutMs(NULL), clock |-> 0, timers |-> << >> ]

NoClientSeen ==
    [ by |-> << >>, strayArrived |-> FALSE, strayChanged |-> FALSE,
      eventArrived |-> FALSE, eventSettled |-> FALSE,
      sentAt |-> << >>, timedOutAt |-> << >>,
      lateArrived |-> FALSE, lateChanged |-> FALSE ]

\* MeasurementWorker.mjs loaded: not disposed, no message handled yet
NewWorker == [ disposed |-> FALSE, closed |-> FALSE, log |-> << >> ]

\* new DiagramRuntime(): no cycle, no card in the strip, no id given out
NewDiagram == [ cycles |-> << >>, cards |-> << >>, diagramIdCounter |-> 0 ]

\* the page as loaded: analysis buttons disabled, no analysis shown
NewUi == [ analysisEnabled |-> FALSE, activeAnalysis |-> << >> ]

\* nothing added, no analysis asked for
NothingShown == [ added |-> << >>, asked |-> << >> ]

\* new SerialManager(): no port held, no call in flight, none completed
NewSerial ==
    [ port |-> << >>, calls |-> << >>, started |-> 0,
      closed |-> [ p \in {1, 2} |-> 0 ], done |-> << >> ]

\* the page around the measurement runtime, as loaded
NoApp ==
    /\ diagram = NewDiagram
    /\ ui = NewUi
    /\ shown = NothingShown
    /\ serial = NewSerial

NoClient ==
    /\ client = NewClient
    /\ clientSeen = NoClientSeen
    /\ worker = NewWorker
    /\ called = << >>
    /\ NoApp

\* no host is attached to the engine
NoHost ==
    /\ mode = "none"
    /\ running = FALSE
    /\ activePort = FALSE
    /\ loopPromise = FALSE
    /\ starts = 0
    /\ loops = << >>
    /\ disc = "none"
    /\ seen = NothingSeen

\* no burst has been seen
NoBurst ==
    [ edges |-> 0, last |-> 0, gaps |-> {}, fresh |-> FALSE, nsaReset |-> FALSE,
      done |-> FALSE, doneAt |-> NULL, cycles |-> << >>,
      initClosed |-> FALSE, started |-> 0, otherEdges |-> FALSE, totalCycles |-> 0,
      until |-> 0 ]

(***************************************************************************)
(* The engine on its own, driven by a caller that pushes samples.          *)
(***************************************************************************)
EngineInit ==
    /\ engine = NewEngine
    /\ now = 0
    /\ cycle = NULL
    /\ cyclesSinceReset = 0
    /\ burst = NoBurst
    /\ NoHost
    /\ NoClient

EngInitialize(signals) ==
    /\ engine' = initializeFromSignals(engine, signals).engine
    /\ cycle' = NULL
    /\ called' = NULL
    /\ UNCHANGED <<now, cyclesSinceReset, burst>>
    /\ UNCHANGED hostVars
    /\ UNCHANGED <<client, clientSeen, worker, appVars>>

\* the reset of the edge buffers that one processStableSignals call made, if
\* any: "nsa" when #handleNsa cleared them, "evaluated" or "short" when
\* #maybeFinalize cleared an evaluated buffer or one of fewer than four
\* primary edges
Sampled(e, signals, t) ==
    IF NsaResets(e, signals)
    THEN Some([ op |-> "processStableSignals", reset |-> "nsa" ])
    ELSE IF FinalizeResets(handled(e, signals, t), t)
    THEN Some([ op |-> "processStableSignals",
                reset |-> IF handled(e, signals, t).hasEvaluatedCycle
                          THEN "evaluated" ELSE "short" ])
    ELSE NULL

\* one sample, taken d ms after the previous one
EngProcess(signals, d) ==
    /\ now + d <= MaxNow
    /\ SuppressBound(engine, signals)
    /\ ChangedLines(engine, signals) \in SampleChanges
    /\ \E r \in { processStableSignals(engine, signals, now + d) } :
        /\ now' = now + d
        /\ engine' = r.engine
        /\ cycle' = r.cycle
        /\ cyclesSinceReset' =
              IF ResetsItself(engine, signals, now + d)
              THEN (IF r.cycle # NULL THEN 1 ELSE 0)
              ELSE cyclesSinceReset + (IF r.cycle # NULL THEN 1 ELSE 0)
        /\ UNCHANGED burst
        /\ UNCHANGED hostVars
    /\ called' = Sampled(engine, signals, now + d)
    /\ UNCHANGED <<client, clientSeen, worker, appVars>>

\* the line values and the debounce setting of an engine
Settings(e) == <<e.nsiState, e.nsaState, e.nsrState, e.debounceMs>>

\* engine.resetCycle(); the call is remembered with the settings it found,
\* and with the engine it found when the step before was a resetCycle() too
EngResetCycle ==
    /\ engine' = resetCycle(engine)
    /\ cyclesSinceReset' = 0
    /\ cycle' = NULL
    /\ called' = Some([ op |-> "resetCycle", settings |-> Settings(engine),
                        again |-> IF called # NULL /\ called[1].op = "resetCycle"
                                  THEN Some(engine) ELSE NULL ])
    /\ UNCHANGED <<now, burst>>
    /\ UNCHANGED hostVars
    /\ UNCHANGED <<client, clientSeen, worker, appVars>>

EngResetAll ==
    /\ engine' = resetAll(engine)
    /\ cyclesSinceReset' = 0
    /\ cycle' = NULL
    /\ called' = NULL
    /\ UNCHANGED <<now, burst>>
    /\ UNCHANGED hostVars
    /\ UNCHANGED <<client, clientSeen, worker, appVars>>

EngineNext ==
    \/ \E s \in Signals : EngInitialize(s)
    \/ \E s \in Signals, d \in Steps : EngProcess(s, d)
    \/ EngResetCycle
    \/ EngResetAll

SpecEngine == EngineInit /\ [][EngineNext]_vars

(***************************************************************************)
(* A dialling session: the engine is initialized from the first read and   *)
(* then fed one sample per loop iteration (RotaryTester._loop,             *)
(* runPollingLoop with debounceMs = 0); every Cycle returned is forwarded  *)
(* to the cycle-ready observer.  burst follows the dial as the samples     *)
(* show it: a burst is a run of primary edges no more than 100 ms apart,   *)
(* and it is done at the first sample taken more than 100 ms after its     *)
(* last edge.                                                              *)
(***************************************************************************)
NextBurst(b, e, signals, t, returned) ==
    LET changed == ChangedLines(e, signals)
        isEdge == "nsi" \in changed
        active == b.edges > 0 /\ ~b.done
        gap == t - b.last
        h == handled(e, signals, t)
        notified == IF returned # NULL
                    THEN <<[ pulses |-> returned[1].pulses, fHz10 |-> returned[1].fHz10, at |-> t ]>>
                    ELSE << >>
        common == [ b EXCEPT !.otherEdges = b.otherEdges \/ changed \ {"nsi"} # {},
                             !.totalCycles = Min(2, b.totalCycles + Len(notified)) ]
    IN  IF isEdge /\ (~active \/ gap > 100)
        THEN [ common EXCEPT !.edges = 1, !.last = t, !.gaps = {},
                             !.fresh = (h.nsiTimes = <<t>> /\ ~h.hasEvaluatedCycle),
                             !.nsaReset = FALSE, !.done = FALSE, !.doneAt = NULL,
                             !.cycles = notified,
                             !.started = Min(2, b.started + 1) ]
        ELSE IF isEdge
        THEN [ common EXCEPT !.edges = b.edges + 1, !.last = t,
                             !.gaps = b.gaps \cup {gap},
                             !.nsaReset = b.nsaReset \/ NsaResets(e, signals),
                             !.cycles = b.cycles \o notified ]
        ELSE IF active
        THEN [ common EXCEPT !.nsaReset = b.nsaReset \/ NsaResets(e, signals),
                             !.done = gap > 100,
                             !.doneAt = IF gap > 100 THEN Some(t) ELSE NULL,
                             !.cycles = b.cycles \o notified ]
        ELSE [ common EXCEPT !.cycles = b.cycles \o notified ]

\* the session after one more loop iteration, d ms after the previous one
DialStep(st, signals, d) ==
    LET t == st.now + d
        r == processStableSignals(st.engine, signals, t)
        returned == IF r.cycle # NULL THEN 1 ELSE 0
    IN  [ engine |-> r.engine,
          now |-> t,
          cycle |-> r.cycle,
          cyclesSinceReset |-> IF ResetsItself(st.engine, signals, t)
                               THEN returned
                               ELSE st.cyclesSinceReset + returned,
          burst |-> NextBurst(st.burst, st.engine, signals, t, r.cycle) ]

RECURSIVE RunDial(_, _)
RunDial(st, samples) ==
    IF samples = << >> THEN st
    ELSE RunDial(DialStep(st, Head(samples).signals, Head(samples).d), Tail(samples))

Sample(dcd, ri, d) ==
    [ signals |-> [dataCarrierDetect |-> dcd, dataSetReady |-> FALSE, ringIndicator |-> ri],
      d |-> d ]

\* the session right after start() initialized the engine from its first read
Started(signals) ==
    [ engine |-> initializeFromSignals(NewEngine, signals).engine,
      now |-> 0, cycle |-> NULL, cyclesSinceReset |-> 0,
      burst |-> [ NoBurst EXCEPT !.initClosed = signals.dataCarrierDetect ] ]

AtRest == [dataCarrierDetect |-> TRUE, dataSetReady |-> FALSE, ringIndicator |-> FALSE]

\* a first dial of two pulses on a mechanism without a secondary line, up to
\* the iteration that returned its Cycle
FirstDial ==
    <<Sample(FALSE, FALSE, 50), Sample(TRUE, FALSE, 50), Sample(FALSE, FALSE, 50),
      Sample(TRUE, FALSE, 50), Sample(TRUE, FALSE, 105)>>

\* the same dial on a mechanism whose secondary line closes before the
\* pulses and opens after them
FirstDialWithSecondary ==
    <<Sample(TRUE, TRUE, 50),
      Sample(FALSE, TRUE, 50), Sample(TRUE, TRUE, 50), Sample(FALSE, TRUE, 50),
      Sample(TRUE, TRUE, 50), Sample(TRUE, FALSE, 50), Sample(TRUE, FALSE, 105)>>

\* the points a session is followed from: right after start, and after a
\* first dial was measured (computed by running the engine over that dial)
DialStarts ==
    { Started(s) : s \in Signals }
    \cup { RunDial(Started(AtRest), FirstDial),
           RunDial(Started(AtRest), FirstDialWithSecondary) }

DialInit ==
    \E st \in DialStarts :
        /\ engine = st.engine
        /\ now = st.now
        /\ cycle = st.cycle
        /\ cyclesSinceReset = st.cyclesSinceReset
        /\ burst = [ st.burst EXCEPT !.until = st.now + DialSpan ]
        /\ NoHost
        /\ NoClient

\* one loop iteration, d ms after the previous one; the suppress line rests
DialSample(signals, d) ==
    /\ now + d <= burst.until
    /\ ChangedLines(engine, signals) \in SampleChanges
    /\ "nsr" \notin ChangedLines(engine, signals)
    /\ \E st \in { DialStep([ engine |-> engine, now |-> now, cycle |-> cycle,
                              cyclesSinceReset |-> cyclesSinceReset, burst |-> burst ],
                            signals, d) } :
        /\ now' = st.now
        /\ engine' = st.engine
        /\ cycle' = st.cycle
        /\ cyclesSinceReset' = st.cyclesSinceReset
        /\ burst' = st.burst
        /\ UNCHANGED hostVars
        /\ UNCHANGED clientVars
    /\ UNCHANGED clientVars

DialNext == \E s \in Signals, d \in Steps : DialSample(s, d)

SpecDial == DialInit /\ [][DialNext]_vars

(***************************************************************************)
(* computeCycle on its own: a caller fills the primary edge log with       *)
(* timestamps that do not decrease and asks for the metrics, as the        *)
(* engine's unit test does.                                                *)
(***************************************************************************)
\* edges in the log
MaxEdges == 5

\* edges of a regular dial: up to eleven pulses
MaxDialEdges == 22

\* time between two edges: none, a fast, a regular and two slow half-periods
\* (70 + 73 ms is a period just above 1000 / 7 ms)
Gaps == {0, 25, 50, 70, 73}

ComputeInit ==
    /\ engine = initializeFromSignals(NewEngine, AtRest).engine
    /\ now = 0
    /\ cycle = NULL
    /\ cyclesSinceReset = 0
    /\ burst = NoBurst
    /\ NoHost
    /\ NoClient

\* the next primary edge is logged d ms after the previous one
CcEdge(d) ==
    /\ Len(engine.nsiTimes) < MaxEdges
    /\ now' = now + d
    /\ engine' = handleNsi(engine, ~engine.nsiState[1], now + d)
    /\ cycle' = NULL
    /\ called' = NULL
    /\ UNCHANGED <<cyclesSinceReset, burst>>
    /\ UNCHANGED hostVars
    /\ UNCHANGED <<client, clientSeen, worker, appVars>>

\* the log after n more edges, one every 50 ms
RECURSIVE Dialled(_, _, _)
Dialled(e, n, t) ==
    IF n = 0 THEN e
    ELSE Dialled(handleNsi(e, ~e.nsiState[1], t + 50), n - 1, t + 50)

\* a regular dial of n edges is logged
CcDial(n) ==
    /\ Len(engine.nsiTimes) = 0
    /\ now' = now + 50 * n
    /\ engine' = Dialled(engine, n, now)
    /\ cycle' = NULL
    /\ called' = NULL
    /\ UNCHANGED <<cyclesSinceReset, burst>>
    /\ UNCHANGED hostVars
    /\ UNCHANGED <<client, clientSeen, worker, appVars>>

\* engine.computeCycle()
CcCompute ==
    /\ cycle = NULL
    /\ cycle' = computeCycle(engine)
    /\ called' = NULL
    /\ UNCHANGED <<engine, now, cyclesSinceReset, burst>>
    /\ UNCHANGED hostVars
    /\ UNCHANGED <<client, clientSeen, worker, appVars>>

\* engine.setDebounceMs(ms)
CcSetDebounce(ms) ==
    /\ engine' = setDebounceMs(engine, ms)
    /\ called' = Some([ op |-> "setDebounceMs", ms |-> ms, before |-> engine ])
    /\ cycle' = NULL
    /\ UNCHANGED <<now, cyclesSinceReset, burst>>
    /\ UNCHANGED hostVars
    /\ UNCHANGED <<client, clientSeen, worker, appVars>>

ComputeNext ==
    \/ \E d \in Gaps : CcEdge(d)
    \/ \E n \in 1..MaxDialEdges : CcDial(n)
    \/ \E ms \in DebounceArguments : CcSetDebounce(ms)
    \/ CcCompute

SpecCompute == ComputeInit /\ [][ComputeNext]_vars

(***************************************************************************)
(* The hosts of the engine: RuntimeBridge with a RotaryTester on the main  *)
(* thread (mode "fallback") and MeasurementWorker (mode "worker").  An     *)
(* action is the code that runs between two awaits.  mode keeps the        *)
(* runtime the session was connected with.  The engine clock advances by   *)
(* one millisecond with every line read that returns.                      *)
(***************************************************************************)
\* line reads that return in one session
MaxReads == 4

\* start calls suspended in their initial line read at the same time
MaxPendingStarts == 2

\* what a line read of a host returns: the dial at rest, the primary line
\* open, and all three lines away from rest
HostSignals ==
    { AtRest,
      [dataCarrierDetect |-> FALSE, dataSetReady |-> FALSE, ringIndicator |-> FALSE],
      [dataCarrierDetect |-> FALSE, dataSetReady |-> TRUE, ringIndicator |-> TRUE] }

\* an activation that has just called getSignals() at the top of an iteration;
\* atBegin is the debounce setting of that moment, kept while the read is
\* pending
NewLoop ==
    [ pc |-> "read", first |-> AtRest,
      disagreed |-> FALSE, touched |-> FALSE, processed |-> FALSE,
      atBegin |-> Some(engine.debounceMs) ]

RemoveAt(s, i) == [ j \in 1..(Len(s) - 1) |-> IF j < i THEN s[j] ELSE s[j + 1] ]

\* the snapshot handed to processStableSignals: the primary line as
\* confirmed, the other two lines as first read
StableSignals(first, stableDcd) ==
    [ dataCarrierDetect |-> stableDcd,
      dataSetReady |-> first.dataSetReady,
      ringIndicator |-> first.ringIndicator ]

\* a loop that abandons an iteration when the secondary line reads differ
ConfirmDisagrees_Secondary(first, confirm) ==
    first.ringIndicator # confirm.ringIndicator

\* "stableDcd !== confirmDcd"
ConfirmDisagrees(first, confirm) ==
    first.dataCarrierDetect # confirm.dataCarrierDetect

\* from the first read to the next await: with a debounce the loop only
\* sleeps, without one it hands the snapshot to the engine
AfterFirstRead(e, signals, t) ==
    IF e.debounceMs > 0
    THEN [ engine |-> e, cycle |-> NULL, processed |-> FALSE, pc |-> "debounce" ]
    ELSE LET r == processStableSignals(
                      e, StableSignals(signals, signals.dataCarrierDetect), t)
         IN  [ engine |-> r.engine, cycle |-> r.cycle, processed |-> TRUE, pc |-> "poll" ]

\* from the confirmation read to the next await
AfterConfirm(e, first, confirm, t) ==
    IF ConfirmDisagrees(first, confirm)
    THEN [ engine |-> e, cycle |-> NULL, processed |-> FALSE ]
    ELSE LET r == processStableSignals(
                      e, StableSignals(first, confirm.dataCarrierDetect), t)
         IN  [ engine |-> r.engine, cycle |-> r.cycle, processed |-> TRUE ]

\* "while (this.running)", "while (running && activePort)"
LoopContinues ==
    IF mode = "worker" THEN running /\ activePort ELSE running

\* the part of the engine a stop/start pair is to keep
Kept(e) ==
    [ nsiTimes |-> e.nsiTimes, nsaTimes |-> e.nsaTimes, nsrTimes |-> e.nsrTimes,
      hasEvaluatedCycle |-> e.hasEvaluatedCycle, debounceMs |-> e.debounceMs ]

\* "if (initResult.warningKey) { onWarn / emit WARNING }": what the start
\* call that has just set running did, given the snapshot it read
StartOutcome(signals, initResult, isRunning) ==
    Some([ open |-> ~signals.dataCarrierDetect,
           advisories |-> IF initResult.warningKey # NULL THEN 1 ELSE 0,
           running |-> isRunning ])

\* what the loops did since the last stop call that no start call followed:
\* "idle" nothing, "once" one processStableSignals call, "twice" a second
\* one, "began" a new iteration; "none" when there is no such stop call
SinceStopSampled(s, processed) ==
    IF ~processed THEN s
    ELSE IF s = "idle" THEN "once"
    ELSE IF s = "once" THEN "twice"
    ELSE s

SinceStopBegan(s, began) ==
    IF began /\ s # "none" THEN "began" ELSE s

\* the observers after a start call: what was seen of an earlier failure is over
SeenAtStart(sn, before, after) ==
    [ sn EXCEPT !.failed = FALSE, !.errors = 0, !.afterFail = FALSE,
                !.startKept = @ /\ (sn.paused => Kept(before) = Kept(after)) ]

\* runPollingLoop() returned: .finally() clears loopPromise, and a
\* disconnectPort() that awaits loopPromise goes on to its next await
WorkerLoopReturned ==
    /\ loopPromise' = FALSE
    /\ IF disc = "awaitLoop"
       THEN /\ activePort' = FALSE
            /\ engine' = resetAll(engine)
            /\ disc' = "closing"
       ELSE UNCHANGED <<activePort, engine, disc>>

HostInit ==
    /\ engine = NewEngine
    /\ now = 0
    /\ cycle = NULL
    /\ cyclesSinceReset = 0
    /\ burst = NoBurst
    /\ mode \in {"fallback", "worker"}
    /\ running = FALSE
    /\ activePort = TRUE
    /\ loopPromise = FALSE
    /\ starts = 0
    /\ loops = << >>
    /\ disc = "none"
    /\ seen = NothingSeen
    /\ NoClient

\* RuntimeBridge.setDebounce: tester.setDebounceMs or the SET_DEBOUNCE request
SetDebounce(ms) ==
    /\ disc # "done"
    /\ engine' = setDebounceMs(engine, ms)
    /\ UNCHANGED <<now, cycle, cyclesSinceReset, burst>>
    /\ UNCHANGED hostVars
    /\ UNCHANGED clientVars

\* RotaryTester.start() up to "await this.serial.getSignals()"
FgStart ==
    /\ mode = "fallback"
    /\ ~running
    /\ activePort
    /\ starts < MaxPendingStarts
    /\ starts' = starts + 1
    /\ seen' = [ SeenAtStart(seen, engine, engine) EXCEPT !.sinceStop = "none", !.startFailed = NULL ]
    /\ UNCHANGED <<engine, now, cycle, cyclesSinceReset, burst>>
    /\ UNCHANGED <<mode, running, activePort, loopPromise, loops, disc>>
    /\ UNCHANGED clientVars

\* RotaryTester.start() after the initial read returned signals
FgStartResume(signals) ==
    /\ mode = "fallback"
    /\ starts > 0
    /\ disc # "done"
    /\ now < MaxReads
    /\ now' = now + 1
    /\ engine' = initializeFromSignals(engine, signals).engine
    /\ running' = TRUE
    /\ loops' = Append(loops, NewLoop)
    /\ starts' = starts - 1
    /\ seen' = [ SeenAtStart(seen, engine, engine') EXCEPT
                    !.paused = FALSE,
                    !.started = StartOutcome(signals,
                                   initializeFromSignals(engine, signals), running'),
                    !.sinceStop = SinceStopBegan(@, loops' # loops),
                             !.startFailed = NULL ]
    /\ UNCHANGED <<cycle, cyclesSinceReset, burst, mode, activePort, loopPromise, disc>>
    /\ UNCHANGED clientVars

\* what a start call whose initial read failed did to the host
FailedStart(ranBefore, ranAfter, launched) ==
    Some([ ranBefore |-> ranBefore, ranAfter |-> ranAfter, launched |-> launched ])

\* a failed start that goes on to "this.running = true"
StartFail_SetsRunning ==
    /\ starts > 0
    /\ starts' = starts - 1
    /\ running' = TRUE
    /\ UNCHANGED <<engine, now, cycle, cyclesSinceReset, burst>>
    /\ UNCHANGED <<mode, activePort, loopPromise, loops, disc>>
    /\ seen' = [ seen EXCEPT !.startFailed =
                    FailedStart(running, running',
                                loops' # loops \/ loopPromise' # loopPromise) ]
    /\ UNCHANGED clientVars

\* the initial read of a start call failed: the call rejects
StartFail ==
    /\ starts > 0
    /\ starts' = starts - 1
    /\ UNCHANGED <<engine, now, cycle, cyclesSinceReset, burst>>
    /\ UNCHANGED <<mode, running, activePort, loopPromise, loops, disc>>
    /\ seen' = [ seen EXCEPT !.startFailed =
                    FailedStart(running, running',
                                loops' # loops \/ loopPromise' # loopPromise) ]
    /\ UNCHANGED clientVars

\* RotaryTester.stop()
FgStop ==
    /\ mode = "fallback"
    /\ running \/ starts > 0
    /\ running' = FALSE
    /\ UNCHANGED <<engine, now, cycle, cyclesSinceReset, burst>>
    /\ UNCHANGED <<mode, activePort, loopPromise, starts, loops, disc>>
    /\ seen' = [ seen EXCEPT !.paused = @ \/ running,
                             !.stopKept = @ /\ engine' = engine /\ loops' = loops,
                             !.sinceStop = "idle",
                             !.startFailed = NULL ]
    /\ UNCHANGED clientVars

\* startLoop() up to "await activePort.getSignals()"
WkStart ==
    /\ mode = "worker"
    /\ activePort
    /\ ~running
    /\ starts < MaxPendingStarts
    /\ engine' = resetAll(engine)
    /\ starts' = starts + 1
    /\ seen' = [ SeenAtStart(seen, engine, engine') EXCEPT !.sinceStop = "none", !.startFailed = NULL ]
    /\ UNCHANGED <<now, cycle, cyclesSinceReset, burst>>
    /\ UNCHANGED <<mode, running, activePort, loopPromise, loops, disc>>
    /\ UNCHANGED clientVars

\* startLoop() after the initial read returned signals; a loop launched
\* without a port returns at once
WkStartResume(signals) ==
    /\ mode = "worker"
    /\ starts > 0
    /\ disc # "done"
    /\ now < MaxReads
    /\ now' = now + 1
    /\ engine' = initializeFromSignals(engine, signals).engine
    /\ running' = TRUE
    /\ IF ~loopPromise /\ activePort
       THEN /\ loops' = Append(loops, NewLoop)
            /\ loopPromise' = TRUE
       ELSE /\ loops' = loops
            /\ loopPromise' = loopPromise
    /\ starts' = starts - 1
    /\ seen' = [ SeenAtStart(seen, engine, engine') EXCEPT
                    !.paused = FALSE,
                    !.started = StartOutcome(signals,
                                   initializeFromSignals(engine, signals), running'),
                    !.sinceStop = SinceStopBegan(@, loops' # loops),
                             !.startFailed = NULL ]
    /\ UNCHANGED <<cycle, cyclesSinceReset, burst, mode, activePort, disc>>
    /\ UNCHANGED clientVars

\* stopLoop()
WkStop ==
    /\ mode = "worker"
    /\ running \/ starts > 0
    /\ running' = FALSE
    /\ UNCHANGED <<engine, now, cycle, cyclesSinceReset, burst>>
    /\ UNCHANGED <<mode, activePort, loopPromise, starts, loops, disc>>
    /\ seen' = [ seen EXCEPT !.paused = @ \/ running,
                             !.stopKept = @ /\ engine' = engine /\ loops' = loops,
                             !.sinceStop = "idle",
                             !.startFailed = NULL ]
    /\ UNCHANGED clientVars

\* the first read of an iteration returned signals
LoopRead(i, signals) ==
    /\ loops[i].pc = "read"
    /\ disc # "done"
    /\ now < MaxReads
    /\ now' = now + 1
    /\ \E r \in { AfterFirstRead(engine, signals, now + 1) } :
        /\ engine' = r.engine
        /\ cycle' = r.cycle
        /\ loops' = [ loops EXCEPT ![i] =
                        [ pc |-> r.pc, first |-> signals, disagreed |-> FALSE,
                          touched |-> r.engine # engine, processed |-> r.processed,
                          atBegin |-> NULL ] ]
    /\ seen' = [ seen EXCEPT !.afterFail = @ \/ seen.failed,
                             !.sinceStop = SinceStopSampled(@, loops'[i].processed),
                             !.startFailed = NULL ]
    /\ UNCHANGED <<cyclesSinceReset, burst>>
    /\ UNCHANGED <<mode, running, activePort, loopPromise, starts, disc>>
    /\ UNCHANGED clientVars

\* "await sleep(debounceMs)" is over: the confirmation read is issued
LoopDebounced(i) ==
    /\ loops[i].pc = "debounce"
    /\ loops' = [ loops EXCEPT ![i].pc = "confirm" ]
    /\ UNCHANGED <<engine, now, cycle, cyclesSinceReset, burst>>
    /\ UNCHANGED <<mode, running, activePort, loopPromise, starts, disc, seen>>
    /\ UNCHANGED clientVars

\* the confirmation read returned confirm
LoopConfirm(i, confirm) ==
    /\ loops[i].pc = "confirm"
    /\ disc # "done"
    /\ now < MaxReads
    /\ now' = now + 1
    /\ \E r \in { AfterConfirm(engine, loops[i].first, confirm, now + 1) } :
        /\ engine' = r.engine
        /\ cycle' = r.cycle
        /\ loops' = [ loops EXCEPT ![i] =
                        [ @ EXCEPT !.pc = "poll",
                                   !.disagreed =
                                       loops[i].first.dataCarrierDetect
                                           # confirm.dataCarrierDetect,
                                   !.touched = @ \/ r.engine # engine,
                                   !.processed = @ \/ r.processed ] ]
    /\ seen' = [ seen EXCEPT !.afterFail = @ \/ seen.failed,
                             !.sinceStop = SinceStopSampled(@, loops'[i].processed),
                             !.startFailed = NULL ]
    /\ UNCHANGED <<cyclesSinceReset, burst>>
    /\ UNCHANGED <<mode, running, activePort, loopPromise, starts, disc>>
    /\ UNCHANGED clientVars

\* a read of RotaryTester._loop rejected: the promise of _loop() rejects and
\* the catch callback of start() warns the host and clears running
FgLoopFail(i) ==
    /\ mode = "fallback"
    /\ loops[i].pc \in {"read", "confirm"}
    /\ loops' = RemoveAt(loops, i)
    /\ running' = FALSE
    /\ seen' = [ seen EXCEPT !.failed = TRUE, !.errors = Min(2, @ + 1),
                             !.startFailed = NULL ]
    /\ UNCHANGED <<engine, now, cycle, cyclesSinceReset, burst>>
    /\ UNCHANGED <<mode, activePort, loopPromise, starts, disc>>
    /\ UNCHANGED clientVars

\* a read of runPollingLoop threw: the catch block clears running and emits
\* the error event, and the loop condition ends the loop
WkLoopFail(i) ==
    /\ mode = "worker"
    /\ loops[i].pc \in {"read", "confirm"}
    /\ loops' = RemoveAt(loops, i)
    /\ running' = FALSE
    /\ seen' = [ seen EXCEPT !.failed = TRUE, !.errors = Min(2, @ + 1),
                             !.startFailed = NULL ]
    /\ WorkerLoopReturned
    /\ UNCHANGED <<now, cycle, cyclesSinceReset, burst, mode, starts>>
    /\ UNCHANGED clientVars

\* "await sleep(pollIntervalMs)" is over in RotaryTester._loop
FgLoopWake(i) ==
    /\ mode = "fallback"
    /\ loops[i].pc = "poll"
    /\ loops' = IF LoopContinues THEN [ loops EXCEPT ![i] = NewLoop ]
                ELSE RemoveAt(loops, i)
    /\ seen' = [ seen EXCEPT !.sinceStop = SinceStopBegan(@, LoopContinues),
                             !.startFailed = NULL ]
    /\ UNCHANGED <<engine, now, cycle, cyclesSinceReset, burst>>
    /\ UNCHANGED <<mode, running, activePort, loopPromise, starts, disc>>
    /\ UNCHANGED clientVars

\* "await sleep(POLL_INTERVAL_MS)" is over in runPollingLoop
WkLoopWake(i) ==
    /\ mode = "worker"
    /\ loops[i].pc = "poll"
    /\ IF LoopContinues
       THEN /\ loops' = [ loops EXCEPT ![i] = NewLoop ]
            /\ UNCHANGED <<engine, activePort, loopPromise, disc>>
       ELSE /\ loops' = RemoveAt(loops, i)
            /\ WorkerLoopReturned
    /\ seen' = [ seen EXCEPT !.sinceStop = SinceStopBegan(@, LoopContinues),
                             !.startFailed = NULL ]
    /\ UNCHANGED <<now, cycle, cyclesSinceReset, burst, mode, running, starts>>
    /\ UNCHANGED clientVars

\* RuntimeBridge.disconnect() up to "await this.#serial.disconnect()"
FgDisconnect ==
    /\ mode = "fallback"
    /\ disc = "none"
    /\ running' = FALSE
    /\ disc' = "closing"
    /\ seen' = [ seen EXCEPT !.paused = FALSE, !.sinceStop = "none",
                             !.startFailed = NULL ]
    /\ UNCHANGED <<engine, now, cycle, cyclesSinceReset, burst>>
    /\ UNCHANGED <<mode, activePort, loopPromise, starts, loops>>
    /\ UNCHANGED clientVars

\* disconnectPort() up to its first await: on loopPromise if it is set,
\* else on the port after the port was dropped and the engine reset
WkDisconnect ==
    /\ mode = "worker"
    /\ disc = "none"
    /\ running' = FALSE
    /\ IF loopPromise
       THEN /\ disc' = "awaitLoop"
            /\ UNCHANGED <<engine, activePort>>
       ELSE /\ activePort' = FALSE
            /\ engine' = resetAll(engine)
            /\ disc' = "closing"
    /\ seen' = [ seen EXCEPT !.paused = FALSE,
                             !.resetEarly = @ \/ (~loopPromise /\ loops # << >>),
                             !.sinceStop = "none",
                             !.startFailed = NULL ]
    /\ UNCHANGED <<now, cycle, cyclesSinceReset, burst>>
    /\ UNCHANGED <<mode, loopPromise, starts, loops>>
    /\ UNCHANGED clientVars

\* the port is closed and the disconnect call returns; SerialManager drops
\* its port, RuntimeBridge drops the tester
CloseDone ==
    /\ disc = "closing"
    /\ disc' = "done"
    /\ activePort' = FALSE
    /\ seen' = [ seen EXCEPT !.disconnected = TRUE,
                             !.startFailed = NULL ]
    /\ UNCHANGED <<engine, now, cycle, cyclesSinceReset, burst>>
    /\ UNCHANGED <<mode, running, loopPromise, starts, loops>>
    /\ UNCHANGED clientVars

HostNext ==
    \/ \E ms \in DebounceInputs : SetDebounce(ms)
    \/ FgStart
    \/ \E s \in HostSignals : FgStartResume(s)
    \/ StartFail
    \/ FgStop
    \/ WkStart
    \/ \E s \in HostSignals : WkStartResume(s)
    \/ WkStop
    \/ \E i \in 1..Len(loops), s \in HostSignals : LoopRead(i, s)
    \/ \E i \in 1..Len(loops) : LoopDebounced(i)
    \/ \E i \in 1..Len(loops), s \in HostSignals : LoopConfirm(i, s)
    \/ \E i \in 1..Len(loops) : FgLoopFail(i)
    \/ \E i \in 1..Len(loops) : WkLoopFail(i)
    \/ \E i \in 1..Len(loops) : FgLoopWake(i)
    \/ \E i \in 1..Len(loops) : WkLoopWake(i)
    \/ FgDisconnect
    \/ WkDisconnect
    \/ CloseDone

SpecHost == HostInit /\ [][HostNext]_vars

(***************************************************************************)
(* MeasurementWorkerClient: requests to the worker and the messages the    *)
(* worker posts back.  A response is { requestId, ok, payload | error },   *)
(* an event is { type, payload }; a field a message lacks is null here.    *)
(***************************************************************************)
\* requests sent in one run
MaxRequests == 2

\* the requestTimeoutMs option given to the constructor: none, or 20 as in
\* the client's timeout test
TimeoutOptions == { NULL, Some(20) }

\* "{}"
EmptyObject == [ k \in {} |-> TRUE ]

\* payloads of the messages; a message may also carry none
Payloads == { [running |-> TRUE] }

\* responses for ids sent and not sent: as createWorkerResponse builds them
\* (with a payload or none), as createWorkerError builds them (with an error
\* or none), and a payload without the ok field
Responses ==
    [ requestId : { Some(i) : i \in 1..(MaxRequests + 1) },
      ok : { Some(TRUE) },
      payload : { Some(pl) : pl \in Payloads } \cup {NULL},
      error : {NULL},
      type : {NULL} ]
    \cup
    [ requestId : { Some(i) : i \in 1..(MaxRequests + 1) },
      ok : { Some(FALSE) },
      payload : {NULL},
      error : { Some("port lost"), NULL },
      type : {NULL} ]
    \cup
    [ requestId : { Some(i) : i \in 1..(MaxRequests + 1) },
      ok : {NULL},
      payload : { Some(pl) : pl \in Payloads },
      error : {NULL},
      type : {NULL} ]

\* events as emitMeasurementEvent posts them
Events ==
    [ requestId : {NULL},
      ok : {NULL},
      payload : { Some(pl) : pl \in Payloads } \cup {NULL},
      error : {NULL},
      type : { Some("connected"), Some("running"), Some("disconnected"), Some("cycle") } ]

Messages == Responses \cup Events

\* Number.isFinite(Number(message.requestId)): Number(undefined) is NaN
HasRequestId(message) == message.requestId # NULL

\* "message.payload || {}"
PayloadOf(message) ==
    IF message.payload = NULL THEN EmptyObject ELSE message.payload[1]

\* #toError: the message of the Error built from an error payload
ToError(error) ==
    IF error = NULL THEN "Measurement worker request failed." ELSE error[1]

\* "!!payload.running"
RunningOf(payload) ==
    IF "running" \in DOMAIN payload THEN payload.running ELSE FALSE

\* the resolve and reject functions of a promise act once
Settle(promises, id, outcome) ==
    IF promises[id].state = "pending"
    THEN [ promises EXCEPT ![id] = outcome ]
    ELSE promises

Resolved(value) == [ state |-> "resolved", value |-> value ]

Rejected(error) == [ state |-> "rejected", error |-> error ]

\* a handler that hands a response to the oldest pending request
handleWorkerMessage_Oldest(c, message) ==
    IF HasRequestId(message) /\ c.pending # {}
    THEN LET requestId == CHOOSE i \in c.pending : \A j \in c.pending : i <= j
         IN  [ c EXCEPT !.timers[requestId] = NULL,
                        !.pending = @ \ {requestId},
                        !.promises = Settle(@, requestId, Resolved(PayloadOf(message))) ]
    ELSE c

\* #handleWorkerMessage
handleWorkerMessage(c, message) ==
    IF HasRequestId(message)
    THEN LET requestId == message.requestId[1]
         IN  IF requestId \notin c.pending THEN c
             ELSE IF message.ok = Some(FALSE)
             THEN [ c EXCEPT !.timers[requestId] = NULL,
                             !.pending = @ \ {requestId},
                             !.promises = Settle(@, requestId,
                                                 Rejected(ToError(message.error))) ]
             ELSE [ c EXCEPT !.timers[requestId] = NULL,
                             !.pending = @ \ {requestId},
                             !.promises = Settle(@, requestId,
                                                 Resolved(PayloadOf(message))) ]
    ELSE IF message.type = Some("connected")
    THEN [ c EXCEPT !.connected = TRUE ]
    ELSE IF message.type = Some("running")
    THEN [ c EXCEPT !.running = RunningOf(PayloadOf(message)) ]
    ELSE IF message.type = Some("disconnected")
    THEN [ c EXCEPT !.connected = FALSE, !.running = FALSE ]
    ELSE c

\* #request handing out the id of the request before
request_ReusesId(c) ==
    [ c EXCEPT !.worker = TRUE,
               !.pending = @ \cup {c.nextRequestId},
               !.timers = Append(@, Some(c.clock + c.requestTimeoutMs)),
               !.promises = Append(@, [ state |-> "pending" ]) ]

\* #request: the next id, a pending entry with its timer, the message posted
request(c) ==
    [ c EXCEPT !.worker = TRUE,
               !.nextRequestId = @ + 1,
               !.pending = @ \cup {c.nextRequestId},
               !.timers = Append(@, Some(c.clock + c.requestTimeoutMs)),
               !.promises = Append(@, [ state |-> "pending" ]) ]

TimeoutError == "Measurement worker request timed out"

\* the time the timer of requestId is due, or 0 when it was cleared or has run
RunsUntil(c, requestId) ==
    IF c.timers[requestId] = NULL THEN 0 ELSE c.timers[requestId][1]

\* a timer callback that rejects but leaves the entry in the pending map
requestTimedOut_KeepsPending(c, requestId) ==
    [ c EXCEPT !.timers[requestId] = NULL,
               !.promises = Settle(@, requestId, Rejected(TimeoutError)) ]

\* the setTimeout callback of #request
requestTimedOut(c, requestId) ==
    [ c EXCEPT !.timers[requestId] = NULL,
               !.pending = @ \ {requestId},
               !.promises = Settle(@, requestId, Rejected(TimeoutError)) ]

\* #rejectPending
RECURSIVE rejectPending(_, _)
rejectPending(c, error) ==
    IF c.pending = {} THEN c
    ELSE LET requestId == CHOOSE i \in c.pending : \A j \in c.pending : i <= j
         IN  rejectPending(
                 [ c EXCEPT !.timers[requestId] = NULL,
                            !.pending = @ \ {requestId},
                            !.promises = Settle(@, requestId, Rejected(error)) ],
                 error)

\* the requests whose promise differs between two client states
SettledBetween(c, d) ==
    { id \in 1..Len(c.promises) : c.promises[id] # d.promises[id] }

ClientInit ==
    /\ engine = NewEngine
    /\ now = 0
    /\ cycle = NULL
    /\ cyclesSinceReset = 0
    /\ burst = NoBurst
    /\ NoHost
    /\ \E option \in TimeoutOptions :
          client = [ NewClient EXCEPT !.requestTimeoutMs = requestTimeoutMs(option) ]
    /\ clientSeen = NoClientSeen
    /\ worker = NewWorker
    /\ called = << >>
    /\ NoApp

\* the observers after a request was sent at the client's current time
SeenRequest(sn, c) ==
    [ sn EXCEPT !.by = Append(@, NULL),
                !.sentAt = Append(@, c.clock),
                !.timedOutAt = Append(@, NULL) ]

\* a request method of the client (connect, start, stop, setDebounce, ...)
ClRequest ==
    /\ client.nextRequestId <= MaxRequests
    /\ client.disposing = NULL
    /\ client' = request(client)
    /\ clientSeen' = SeenRequest(clientSeen, client)
    /\ UNCHANGED <<engine, now, cycle, cyclesSinceReset, burst>>
    /\ UNCHANGED hostVars
    /\ UNCHANGED <<worker, called, appVars>>

\* the worker's "message" listener runs for message
ClDeliver(message) ==
    /\ client.worker
    /\ \E d \in { handleWorkerMessage(client, message) } :
        LET stray == HasRequestId(message) /\ message.requestId[1] \notin client.pending
            event == ~HasRequestId(message)
            late == /\ HasRequestId(message)
                    /\ message.requestId[1] \in 1..Len(clientSeen.timedOutAt)
                    /\ clientSeen.timedOutAt[message.requestId[1]] # NULL
        IN  /\ client' = d
            /\ clientSeen' =
                 [ clientSeen EXCEPT
                   !.by = [ id \in 1..Len(clientSeen.by) |->
                              IF id \in SettledBetween(client, d)
                              THEN Some(message) ELSE clientSeen.by[id] ],
                   !.strayArrived = @ \/ stray,
                   !.strayChanged = @ \/ (stray /\ d # client),
                   !.eventArrived = @ \/ event,
                   !.eventSettled = @ \/ (event /\ (d.promises # client.promises
                                                    \/ d.pending # client.pending)),
                   !.lateArrived = @ \/ late,
                   !.lateChanged = @ \/ (late /\ d # client) ]
    /\ UNCHANGED <<engine, now, cycle, cyclesSinceReset, burst>>
    /\ UNCHANGED hostVars
    /\ UNCHANGED <<worker, called, appVars>>

\* the timer of request requestId is due and its callback runs
ClTimeout(requestId) ==
    /\ requestId \in 1..Len(client.timers)
    /\ client.timers[requestId] # NULL
    /\ client.clock >= client.timers[requestId][1]
    /\ client' = requestTimedOut(client, requestId)
    /\ clientSeen' = [ clientSeen EXCEPT !.timedOutAt[requestId] = Some(client.clock) ]
    /\ UNCHANGED <<engine, now, cycle, cyclesSinceReset, burst>>
    /\ UNCHANGED hostVars
    /\ UNCHANGED <<worker, called, appVars>>

\* dispose() up to "await this.#request(DISPOSE)"
ClDispose ==
    /\ client.worker
    /\ client.disposing = NULL
    /\ client.nextRequestId <= MaxRequests
    /\ client' = [ request(client) EXCEPT !.disposing = Some(client.nextRequestId) ]
    /\ clientSeen' = SeenRequest(clientSeen, client)
    /\ UNCHANGED <<engine, now, cycle, cyclesSinceReset, burst>>
    /\ UNCHANGED hostVars
    /\ UNCHANGED <<worker, called, appVars>>

\* dispose() after its request settled: the worker is terminated and every
\* pending request rejected
ClDisposed ==
    /\ client.disposing # NULL
    /\ client.promises[client.disposing[1]].state # "pending"
    /\ client' = rejectPending(
                     [ client EXCEPT !.worker = FALSE, !.connected = FALSE,
                                     !.running = FALSE, !.disposing = NULL ],
                     "Measurement worker disposed.")
    /\ UNCHANGED clientSeen
    /\ UNCHANGED <<engine, now, cycle, cyclesSinceReset, burst>>
    /\ UNCHANGED hostVars
    /\ UNCHANGED <<worker, called, appVars>>

\* time passes, up to the moment the next running timer is due
ClTick ==
    /\ \E id \in 1..Len(client.timers) : RunsUntil(client, id) > client.clock
    /\ client' = [ client EXCEPT !.clock =
                     CHOOSE t \in { RunsUntil(client, id) : id \in 1..Len(client.timers) } :
                        /\ t > client.clock
                        /\ \A id \in 1..Len(client.timers) :
                              RunsUntil(client, id) > client.clock => t <= RunsUntil(client, id) ]
    /\ UNCHANGED clientSeen
    /\ UNCHANGED <<engine, now, cycle, cyclesSinceReset, burst>>
    /\ UNCHANGED hostVars
    /\ UNCHANGED <<worker, called, appVars>>

ClientNext ==
    \/ ClRequest
    \/ ClTick
    \/ \E m \in Messages : ClDeliver(m)
    \/ \E id \in 1..MaxRequests : ClTimeout(id)
    \/ ClDispose
    \/ ClDisposed

SpecClient == ClientInit /\ [][ClientNext]_vars

(***************************************************************************)
(* MeasurementWorker as the other end of the protocol: every inbound       *)
(* message starts a run of handleWorkerMessage, which is suspended at the  *)
(* awaits of the command it dispatches.  running, activePort, loopPromise  *)
(* and engine are the worker's module variables; worker.log keeps, for     *)
(* every message received, where its handler is and what it has posted.    *)
(***************************************************************************)
\* messages sent to the worker in one run
MaxMessages == 2

MEASUREMENT_INBOUND ==
    {"connectPort", "start", "setDebounce", "stop", "disconnect", "setLocale", "dispose"}

\* what the main thread may send: the seven commands with their payloads (a
\* connect with and without a port), a type the worker does not know, and an
\* envelope without a type
Commands ==
    { [ type |-> Some(t), payload |-> EmptyObject ] :
          t \in (MEASUREMENT_INBOUND \ {"setDebounce"}) \cup {"reset"} }
    \cup { [ type |-> Some("connectPort"), payload |-> [port |-> TRUE] ] }
    \cup { [ type |-> Some("setDebounce"), payload |-> [debounceMs |-> ms] ] :
              ms \in DebounceInputs }
    \cup { [ type |-> NULL, payload |-> EmptyObject ] }

\* new Error(message)
Error(message) == [ message |-> message, code |-> NULL ]

\* what a rejected port operation throws: an Error without a code, with a
\* code, with an empty code
IoErrors ==
    { [ message |-> "The device has been lost.", code |-> c ] :
          c \in { NULL, Some("E_DEVICE"), Some("") } }

\* createWorkerError that never takes the error's own code
createWorkerError_NoOwnCode(requestId, error) ==
    [ requestId |-> Some(requestId), ok |-> Some(FALSE), payload |-> NULL,
      error |-> Some([ code |-> "WORKER_ERROR", message |-> error.message ]),
      type |-> NULL ]

createWorkerError(requestId, error) ==
    [ requestId |-> Some(requestId), ok |-> Some(FALSE), payload |-> NULL,
      error |-> Some([ code |-> IF error.code # NULL /\ error.code[1] # ""
                                THEN error.code[1] ELSE "WORKER_ERROR",
                       message |-> error.message ]),
      type |-> NULL ]

createWorkerResponse(requestId, payload) ==
    [ requestId |-> Some(requestId), ok |-> Some(TRUE), payload |-> Some(payload),
      error |-> NULL, type |-> NULL ]

\* the payload of the error event handleWorkerMessage emits
ErrorEventPayload(error) ==
    [ code |-> IF error.code # NULL THEN error.code[1] ELSE "WORKER_ERROR",
      message |-> error.message ]

\* what dispatchRequest gave: a result returned or an error thrown
Return(result) == [ ok |-> TRUE, value |-> result ]

Throw(error) == [ ok |-> FALSE, value |-> error ]

\* the log entry of a message just received
Received(command, requestId, hadPort) ==
    [ type |-> command.type, requestId |-> requestId, payload |-> command.payload,
      pc |-> "dispatch", hadPort |-> hadPort, outcome |-> NULL,
      responses |-> 0, response |-> NULL, errorEvents |-> 0, errorEvent |-> NULL ]

\* the worker's variables as one value
WorkerState ==
    [ engine |-> engine, running |-> running, activePort |-> activePort,
      loopPromise |-> loopPromise, worker |-> worker ]

At(st, k, pc) == [ st EXCEPT !.worker.log[k].pc = pc ]

\* handleWorkerMessage after "await dispatchRequest(...)": the response for a
\* finite requestId, and the error event before it when the dispatch threw
respond(entry, outcome) ==
    LET finite == entry.requestId # NULL
        posted == IF outcome.ok
                  THEN createWorkerResponse(entry.requestId[1], outcome.value)
                  ELSE createWorkerError(entry.requestId[1], outcome.value)
        evented == IF outcome.ok THEN entry
                   ELSE [ entry EXCEPT !.errorEvents = Min(2, @ + 1),
                                       !.errorEvent = Some(ErrorEventPayload(outcome.value)) ]
    IN  IF finite
        THEN [ evented EXCEPT !.responses = Min(2, @ + 1), !.response = Some(posted) ]
        ELSE evented

\* the dispatch of message k is over with outcome
finish(st, k, outcome) ==
    [ st EXCEPT !.worker.log[k] =
        [ respond(@, outcome) EXCEPT !.pc = "done", !.outcome = Some(outcome) ] ]

\* the result of startLoop, spread into the result of connectPort
StartResult(entry, isRunning) ==
    IF entry.type = Some("connectPort")
    THEN [ running |-> isRunning, connected |-> TRUE ]
    ELSE [ running |-> isRunning ]

\* startLoop up to "await activePort.getSignals()"
startLoop(st, k) ==
    IF ~st.activePort THEN finish(st, k, Throw(Error("Port is not connected.")))
    ELSE IF st.running THEN finish(st, k, Return(StartResult(st.worker.log[k], TRUE)))
    ELSE At([ st EXCEPT !.engine = resetAll(@) ], k, "reading")

\* disconnectPort has returned to the command that called it
afterDisconnect(st, k) ==
    LET type == st.worker.log[k].type[1]
    IN  IF type = "disconnect"
        THEN finish(st, k, Return([ connected |-> FALSE, running |-> st.running ]))
        ELSE IF type = "dispose"
        THEN finish([ st EXCEPT !.worker.closed = TRUE ], k, Return([ disposed |-> TRUE ]))
        ELSE At([ st EXCEPT !.activePort = TRUE ], k, "opening")

\* disconnectPort from "const port = activePort" to its next await
dropPort(st, k) ==
    LET t == [ st EXCEPT !.activePort = FALSE, !.engine = resetAll(@) ]
    IN  IF ~st.activePort THEN afterDisconnect(t, k) ELSE At(t, k, "closing")

\* disconnectPort up to its first await
disconnectPort(st, k) ==
    LET t == [ st EXCEPT !.running = FALSE ]
    IN  IF st.loopPromise THEN At(t, k, "awaitLoop") ELSE dropPort(t, k)

\* connectPort up to its first await
connectPort(st, k) ==
    IF "port" \notin DOMAIN st.worker.log[k].payload
    THEN finish(st, k, Throw(Error("No serial port was provided to the measurement worker.")))
    ELSE IF st.activePort THEN disconnectPort(st, k)
    ELSE At([ st EXCEPT !.activePort = TRUE ], k, "opening")

\* dispatchRequest up to the first await of the command
dispatchRequest(st, k) ==
    LET entry == st.worker.log[k]
        type == entry.type[1]
    IN  IF st.worker.disposed
        THEN finish(st, k, Throw(Error("Measurement worker is disposed.")))
        ELSE IF type = "connectPort" THEN connectPort(st, k)
        ELSE IF type = "start" THEN startLoop(st, k)
        ELSE IF type = "setDebounce"
        THEN LET e == setDebounceMs(st.engine, entry.payload.debounceMs)
             IN  finish([ st EXCEPT !.engine = e ], k, Return([ debounceMs |-> e.debounceMs ]))
        ELSE IF type = "stop"
        THEN finish([ st EXCEPT !.running = FALSE ], k, Return([ running |-> FALSE ]))
        ELSE IF type = "disconnect" THEN disconnectPort(st, k)
        ELSE IF type = "setLocale" THEN finish(st, k, Return(EmptyObject))
        ELSE IF type = "dispose"
        THEN disconnectPort([ st EXCEPT !.worker.disposed = TRUE ], k)
        ELSE finish(st, k, Throw(Error("Unsupported measurement worker message")))

\* the worker's "message" listener: an envelope without a string type is
\* dropped, any other is dispatched
onWorkerMessage(st, command, requestId) ==
    LET k == Len(st.worker.log) + 1
        t == [ st EXCEPT !.worker.log =
                 Append(@, Received(command, requestId, st.activePort)) ]
    IN  IF command.type = NULL THEN At(t, k, "dropped") ELSE dispatchRequest(t, k)

WorkerInit ==
    /\ engine = NewEngine
    /\ now = 0
    /\ cycle = NULL
    /\ cyclesSinceReset = 0
    /\ burst = NoBurst
    /\ mode = "worker"
    /\ running = FALSE
    /\ activePort = FALSE
    /\ loopPromise = FALSE
    /\ starts = 0
    /\ loops = << >>
    /\ disc = "none"
    /\ seen = NothingSeen
    /\ NoClient

\* the worker's variables become st
WorkerBecomes(st) ==
    /\ engine' = st.engine
    /\ running' = st.running
    /\ activePort' = st.activePort
    /\ loopPromise' = st.loopPromise
    /\ worker' = st.worker
    /\ UNCHANGED <<now, cycle, cyclesSinceReset, burst>>
    /\ UNCHANGED <<mode, starts, loops, disc, seen>>
    /\ UNCHANGED <<client, clientSeen, called, appVars>>

\* a message arrives, with a requestId of its own or without one
WmReceive(command, withId) ==
    /\ ~worker.closed
    /\ Len(worker.log) < MaxMessages
    /\ WorkerBecomes(onWorkerMessage(
           WorkerState, command,
           IF withId THEN Some(Len(worker.log) + 1) ELSE NULL))

\* "await activePort.open(...)" and "await activePort.setSignals(...)" of
\* connectPort are over: the connected event is emitted and startLoop called
WmOpened(k) ==
    /\ ~worker.closed
    /\ worker.log[k].pc = "opening"
    /\ WorkerBecomes(startLoop(WorkerState, k))

\* one of the two rejected
WmOpenFailed(k, error) ==
    /\ ~worker.closed
    /\ worker.log[k].pc = "opening"
    /\ WorkerBecomes(finish(WorkerState, k, Throw(error)))

\* startLoop after the initial read returned signals
WmRead(k, signals) ==
    /\ ~worker.closed
    /\ worker.log[k].pc = "reading"
    /\ WorkerBecomes(
           finish([ WorkerState EXCEPT
                      !.engine = initializeFromSignals(@, signals).engine,
                      !.running = TRUE,
                      !.loopPromise = TRUE ],
                  k, Return(StartResult(worker.log[k], TRUE))))

\* the initial read rejected
WmReadFailed(k, error) ==
    /\ ~worker.closed
    /\ worker.log[k].pc = "reading"
    /\ WorkerBecomes(finish(WorkerState, k, Throw(error)))

\* a read inside runPollingLoop threw: the catch block clears running
WmLoopFailed ==
    /\ ~worker.closed
    /\ loopPromise /\ running /\ activePort
    /\ WorkerBecomes([ WorkerState EXCEPT !.running = FALSE ])

\* runPollingLoop returned: loopPromise is cleared and the disconnectPort
\* calls awaiting it are resumed
WmLoopReturned ==
    /\ ~worker.closed
    /\ loopPromise /\ ~(running /\ activePort)
    /\ WorkerBecomes(
           [ WorkerState EXCEPT
               !.loopPromise = FALSE,
               !.worker.log = [ k \in 1..Len(worker.log) |->
                                  IF worker.log[k].pc = "awaitLoop"
                                  THEN [ worker.log[k] EXCEPT !.pc = "loopDone" ]
                                  ELSE worker.log[k] ] ])

\* disconnectPort after "await loopPromise"
WmAfterLoop(k) ==
    /\ ~worker.closed
    /\ worker.log[k].pc = "loopDone"
    /\ WorkerBecomes(dropPort(WorkerState, k))

\* disconnectPort after "await port.close()"
WmClosed(k) ==
    /\ ~worker.closed
    /\ worker.log[k].pc = "closing"
    /\ WorkerBecomes(afterDisconnect(WorkerState, k))

WorkerNext ==
    \/ \E command \in Commands, withId \in BOOLEAN : WmReceive(command, withId)
    \/ \E k \in 1..Len(worker.log) : WmOpened(k)
    \/ \E k \in 1..Len(worker.log), error \in IoErrors : WmOpenFailed(k, error)
    \/ \E k \in 1..Len(worker.log), signals \in {AtRest} : WmRead(k, signals)
    \/ \E k \in 1..Len(worker.log), error \in IoErrors : WmReadFailed(k, error)
    \/ WmLoopFailed
    \/ WmLoopReturned
    \/ \E k \in 1..Len(worker.log) : WmAfterLoop(k)
    \/ \E k \in 1..Len(worker.log) : WmClosed(k)

SpecWorker == WorkerInit /\ [][WorkerNext]_vars

(***************************************************************************)
(* The diagram history of the page: DiagramRuntime holds the cycles shown  *)
(* in the strip, main.mjs adds one per measured cycle (handleCycle) or a   *)
(* run of ideal ones, clears them, and opens an analysis over them.  A     *)
(* cycle is known here by its digit.                                       *)
(***************************************************************************)
\* "this.#cycles.length === 10"
HistoryLimit == 10

\* diagram ids given out
MaxAdds == 12

\* digits of the measured cycles
Digits == {0, 3}

\* the count argument of addIdealDiagramsAction: 0 (taken as 10) and 2
IdealCounts == {0, 2}

AnalysisModes == {"runtime", "spread"}

\* everything but the page
measureVars == <<engine, now, cycle, cyclesSinceReset, burst, hostVars,
                 client, clientSeen, worker, called>>

\* a removal that drops the newest card and cycle
removeOldest_Newest(d) ==
    IF d.cards = << >> THEN d
    ELSE [ d EXCEPT !.cards = SubSeq(@, 1, Len(@) - 1),
                    !.cycles = SubSeq(@, 1, Len(@) - 1) ]

\* #removeOldest: nothing without a card in the strip
removeOldest(d) ==
    IF d.cards = << >> THEN d
    ELSE [ d EXCEPT !.cards = Tail(@),
                    !.cycles = IF @ = << >> THEN @ ELSE Tail(@) ]

addDiagram(d, c) ==
    LET r  == IF Len(d.cycles) = HistoryLimit THEN removeOldest(d) ELSE d
        id == r.diagramIdCounter + 1
    IN  [ r EXCEPT !.diagramIdCounter = id,
                   !.cards = Append(@, id),
                   !.cycles = Append(@, c) ]

clearDiagrams(d) == [ d EXCEPT !.cycles = << >>, !.cards = << >> ]

\* ready as soon as ten cycles are held
isAnalysisReady_CountOnly(d) == Len(d.cycles) = 10

isAnalysisReady(d) ==
    /\ Len(d.cycles) = 10
    /\ \A i \in 1..Len(d.cycles) : d.cycles[i].digit = d.cycles[1].digit

\* main.mjs updateButtons -> UiRuntime.updateButtons
updateButtons(u, d) == [ u EXCEPT !.analysisEnabled = isAnalysisReady(d) ]

\* "Math.max(1, Math.min(10, Number(count) || 10))"
safeCount(count) == Max(1, Min(10, IF count = 0 THEN 10 ELSE count))

\* n calls of addDiagram with the same cycle
RECURSIVE addDiagrams(_, _, _)
addDiagrams(d, c, n) == IF n = 0 THEN d ELSE addDiagrams(addDiagram(d, c), c, n - 1)

\* s followed by n copies of c
RECURSIVE Repeated(_, _, _)
Repeated(s, c, n) == IF n = 0 THEN s ELSE Repeated(Append(s, c), c, n - 1)

\* createIdealCycle()
IdealCycle == [ digit |-> 0 ]

\* handleCycle from "ui.applyCycleValues(cycle)" on
DgCycle(digit) ==
    /\ diagram.diagramIdCounter < MaxAdds
    /\ diagram' = addDiagram(diagram, [ digit |-> digit ])
    /\ ui' = updateButtons(ui, diagram')
    /\ shown' = [ added |-> Append(shown.added, [ digit |-> digit ]), asked |-> NULL ]
    /\ UNCHANGED measureVars
    /\ UNCHANGED serial

\* addIdealDiagramsAction(count)
DgIdeal(count) ==
    /\ diagram.diagramIdCounter + safeCount(count) <= MaxAdds
    /\ diagram' = addDiagrams(diagram, IdealCycle, safeCount(count))
    /\ ui' = updateButtons(ui, diagram')
    /\ shown' = [ added |-> Repeated(shown.added, IdealCycle, safeCount(count)),
                  asked |-> NULL ]
    /\ UNCHANGED measureVars
    /\ UNCHANGED serial

\* clearDiagramsAction()
DgClear ==
    /\ diagram' = clearDiagrams(diagram)
    /\ ui' = updateButtons([ ui EXCEPT !.activeAnalysis = NULL ], diagram')
    /\ shown' = NothingShown
    /\ UNCHANGED measureVars
    /\ UNCHANGED serial

\* showAnalysisAction(mode): throws unless the analysis is ready
DgShowAnalysis(m) ==
    /\ IF ~isAnalysisReady(diagram)
       THEN /\ shown' = [ shown EXCEPT !.asked = Some([ mode |-> m, outcome |-> "error" ]) ]
            /\ ui' = ui
       ELSE /\ shown' = [ shown EXCEPT !.asked = Some([ mode |-> m, outcome |-> "shown" ]) ]
            /\ ui' = [ ui EXCEPT !.activeAnalysis = Some(m) ]
    /\ UNCHANGED diagram
    /\ UNCHANGED measureVars
    /\ UNCHANGED serial

DiagramInit ==
    /\ engine = NewEngine
    /\ now = 0
    /\ cycle = NULL
    /\ cyclesSinceReset = 0
    /\ burst = NoBurst
    /\ NoHost
    /\ NoClient

DiagramNext ==
    \/ \E digit \in Digits : DgCycle(digit)
    \/ \E count \in IdealCounts : DgIdeal(count)
    \/ DgClear
    \/ \E m \in AnalysisModes : DgShowAnalysis(m)

SpecDiagram == DiagramInit /\ [][DiagramNext]_vars

(***************************************************************************)
(* SerialManager: connect() and disconnect() are async, so calls overlap   *)
(* at their awaits.  A call in flight is a record of serial.calls: where   *)
(* it waits (pc), the port it works on, and for a disconnect the port it   *)
(* found and the close() calls it made.  serial.closed counts the close()  *)
(* calls on each port since it was opened; serial.done is the call that    *)
(* completed last, with isOpen before and after its last step and, for a   *)
(* disconnect, the close() calls made by then on the port it found.        *)
(***************************************************************************)
\* connect and disconnect calls made in one run
MaxSerialCalls == 4

\* the SerialPort objects requestPort() can return
Ports == {1, 2}

\* the manager with call k removed and remembered as completed
Completed(sm, k, after, result) ==
    [ sm EXCEPT !.port = after,
                !.calls = [ j \in 1..(Len(@) - 1) |-> IF j < k THEN @[j] ELSE @[j + 1] ],
                !.done = Some([ op |-> sm.calls[k].op, ok |-> result,
                                found |-> sm.calls[k].found,
                                closes |-> sm.calls[k].closes,
                                closed |-> IF sm.calls[k].found = NULL THEN 0
                                           ELSE sm.closed[sm.calls[k].found[1]],
                                wasOpen |-> sm.port # NULL,
                                isOpen |-> after # NULL ]) ]

\* call k goes on to its next await
Waits(sm, k, pc) == [ sm EXCEPT !.calls[k].pc = pc ]

\* disconnect() after "await this.#port.setSignals(...)" settled either way:
\* "this.#port.close()" is called on the port held now; without one the
\* TypeError is swallowed and the call ends
disconnectLowered(sm, k) ==
    IF sm.port = NULL THEN Completed(sm, k, NULL, TRUE)
    ELSE [ Waits(sm, k, "close") EXCEPT
              !.calls[k].closes = @ + 1,
              !.calls[k].port = sm.port,
              !.closed[sm.port[1]] = @ + 1 ]

SerialInit ==
    /\ engine = NewEngine
    /\ now = 0
    /\ cycle = NULL
    /\ cyclesSinceReset = 0
    /\ burst = NoBurst
    /\ NoHost
    /\ NoClient

\* connect() up to "await navigator.serial.requestPort()"
SerConnect ==
    /\ serial.started < MaxSerialCalls
    /\ serial' = [ serial EXCEPT
                     !.started = @ + 1,
                     !.calls = Append(@, [ op |-> "connect", pc |-> "requestPort",
                                           port |-> NULL, found |-> NULL, closes |-> 0 ]) ]
    /\ UNCHANGED measureVars
    /\ UNCHANGED <<diagram, ui, shown>>

\* requestPort() resolved with port p: #openPort calls port.open()
SerPortChosen(k, p) ==
    /\ serial.calls[k].pc = "requestPort"
    /\ serial' = [ Waits(serial, k, "open") EXCEPT !.calls[k].port = Some(p) ]
    /\ UNCHANGED measureVars
    /\ UNCHANGED <<diagram, ui, shown>>

\* port.open() resolved: port.setSignals({ requestToSend: true }) is called
SerOpened(k) ==
    /\ serial.calls[k].pc = "open"
    /\ serial' = [ Waits(serial, k, "rts") EXCEPT !.closed[serial.calls[k].port[1]] = 0 ]
    /\ UNCHANGED measureVars
    /\ UNCHANGED <<diagram, ui, shown>>

\* setSignals resolved: "this.#port = port", connect() resolves
SerRtsSet(k) ==
    /\ serial.calls[k].pc = "rts"
    /\ serial' = Completed(serial, k, serial.calls[k].port, TRUE)
    /\ UNCHANGED measureVars
    /\ UNCHANGED <<diagram, ui, shown>>

\* requestPort(), port.open() or the first setSignals rejected: so does connect()
SerConnectFailed(k) ==
    /\ serial.calls[k].pc \in {"requestPort", "open", "rts"}
    /\ serial' = Completed(serial, k, serial.port, FALSE)
    /\ UNCHANGED measureVars
    /\ UNCHANGED <<diagram, ui, shown>>

\* disconnect() up to its first await, or to its return without a port
SerDisconnect ==
    /\ serial.started < MaxSerialCalls
    /\ \E sm \in { [ serial EXCEPT
                        !.started = @ + 1,
                        !.calls = Append(@, [ op |-> "disconnect", pc |-> "lower",
                                              port |-> serial.port, found |-> serial.port,
                                              closes |-> 0 ]) ] } :
          serial' = IF serial.port = NULL
                    THEN Completed(sm, Len(sm.calls), NULL, TRUE)
                    ELSE sm
    /\ UNCHANGED measureVars
    /\ UNCHANGED <<diagram, ui, shown>>

\* the setSignals of a disconnect() resolved or rejected
SerLowered(k) ==
    /\ serial.calls[k].pc = "lower"
    /\ serial' = disconnectLowered(serial, k)
    /\ UNCHANGED measureVars
    /\ UNCHANGED <<diagram, ui, shown>>

\* port.close() resolved or rejected: "this.#port = null"
SerClosed(k) ==
    /\ serial.calls[k].pc = "close"
    /\ serial' = Completed(serial, k, NULL, TRUE)
    /\ UNCHANGED measureVars
    /\ UNCHANGED <<diagram, ui, shown>>

SerialNext ==
    \/ SerConnect
    \/ SerDisconnect
    \/ \E k \in 1..Len(serial.calls), p \in Ports : SerPortChosen(k, p)
    \/ \E k \in 1..Len(serial.calls) : SerOpened(k)
    \/ \E k \in 1..Len(serial.calls) : SerRtsSet(k)
    \/ \E k \in 1..Len(serial.calls) : SerConnectFailed(k)
    \/ \E k \in 1..Len(serial.calls) : SerLowered(k)
    \/ \E k \in 1..Len(serial.calls) : SerClosed(k)

SpecSerial == SerialInit /\ [][SerialNext]_vars

(***************************************************************************)
(* The engine at the start of a measurement: a few samples ten             *)
(* milliseconds apart and initializeFromSignals calls at any point between *)
(* them.  called keeps the last call with the engine and the snapshot it   *)
(* was given.                                                              *)
(***************************************************************************)
\* samples in one run
MaxSamples == 3

\* milliseconds between two samples
SampleStep == 10

\* engine.initializeFromSignals(signals)
InInitialize(signals) ==
    /\ engine' = initializeFromSignals(engine, signals).engine
    /\ called' = Some([ op |-> "initializeFromSignals", before |-> engine,
                        signals |-> signals ])
    /\ cycle' = NULL
    /\ UNCHANGED <<now, cyclesSinceReset, burst>>
    /\ UNCHANGED hostVars
    /\ UNCHANGED <<client, clientSeen, worker, appVars>>

\* engine.processStableSignals(signals)
InSample(signals) ==
    /\ now < MaxSamples * SampleStep
    /\ now' = now + SampleStep
    /\ \E r \in { processStableSignals(engine, signals, now + SampleStep) } :
        /\ engine' = r.engine
        /\ cycle' = r.cycle
    /\ called' = Some([ op |-> "processStableSignals", before |-> engine,
                        signals |-> signals ])
    /\ UNCHANGED <<cyclesSinceReset, burst>>
    /\ UNCHANGED hostVars
    /\ UNCHANGED <<client, clientSeen, worker, appVars>>

InitializeNext ==
    \/ \E s \in Signals : InInitialize(s)
    \/ \E s \in Signals : InSample(s)

SpecInitialize == EngineInit /\ [][InitializeNext]_vars

(***************************************************************************)
(* One sampling loop followed on the clock: the notifications it makes.    *)
(* The host has started (the engine is initialized from a dial at rest,    *)
(* running is set, one loop is in its first line read); the debounce       *)
(* setting is the one the host made before it started.  Each step is the   *)
(* loop from one await to the next, d ms of clock time later: the poll     *)
(* sleep and the line read take d ms together, and so do the debounce      *)
(* sleep and the confirmation read.  The loop is followed from its start,  *)
(* and from the iteration that returned the Cycle of a first dial.         *)
(***************************************************************************)
\* the loop is followed for this many milliseconds
LoopSpan == 210

\* clock time from one await of the loop to the next: less than the signal
\* push interval, more than it, and a pause beyond the 100 ms window
LoopSteps == {20, 50, 105}

\* the lines a read returns: the dial at rest, or the primary line open
LoopSignals ==
    { AtRest,
      [dataCarrierDetect |-> FALSE, dataSetReady |-> FALSE, ringIndicator |-> FALSE] }

SIGNAL_PUSH_INTERVAL_MS == 33

\* MeasurementWorker maybeEmitSignals(signals) at performance.now() = nowMs:
\* the worker after the call, and whether the SIGNALS event was posted
maybeEmitSignals(w, nowMs) ==
    IF nowMs - w.lastSignalPushMs < SIGNAL_PUSH_INTERVAL_MS
    THEN [ worker |-> w, emitted |-> FALSE ]
    ELSE [ worker |-> [ w EXCEPT !.lastSignalPushMs = nowMs ], emitted |-> TRUE ]

\* "this.onSignals?.(signals)" of RotaryTester._loop, "maybeEmitSignals(signals)"
\* of runPollingLoop
SignalsStep(m, w, nowMs) ==
    IF m = "worker" THEN maybeEmitSignals(w, nowMs)
    ELSE [ worker |-> w, emitted |-> TRUE ]

\* the signal-change observer: when it was last notified, and the clock time
\* between the last two notifications
SignalsSeen(sn, emitted, nowMs) ==
    IF ~emitted THEN sn
    ELSE [ sn EXCEPT !.signalsAt = Some(nowMs),
                     !.gap = IF sn.signalsAt = NULL THEN NULL
                             ELSE Some(nowMs - sn.signalsAt[1]) ]

\* t(warningKey): the text of a warning in the language of the page
translated(warningKey) == <<"text", warningKey>>

\* what the cycle-ready observer is handed: "{ ...cycle, warnings:
\* cycle.warnings.map((warningKey) => t(warningKey)) }" by RotaryTester._loop,
\* serializeCycle(cycle) by runPollingLoop
CyclePayload(m, c) ==
    IF m = "worker" THEN c
    ELSE [ c EXCEPT !.warnings = [ i \in DOMAIN c.warnings |-> translated(c.warnings[i]) ] ]

\* a loop that notifies the cycle-ready observer after every sample, handing
\* it the last Cycle again when the sample returned none
CycleStep_EverySample(m, forwarded, r) ==
    IF r # NULL THEN Append(forwarded, CyclePayload(m, r[1]))
    ELSE IF forwarded # << >> THEN Append(forwarded, forwarded[Len(forwarded)])
    ELSE forwarded

\* "if (cycle) this.onCycle?.(...)", "if (cycle) emitMeasurementEvent(CYCLE, ...)":
\* the notifications of the cycle-ready observer after the loop got r from
\* processStableSignals
CycleStep(m, forwarded, r) ==
    IF r # NULL THEN Append(forwarded, CyclePayload(m, r[1])) ELSE forwarded

\* the loop right after start(): one activation in its first line read
LoopStarted(ms) ==
    [ engine |-> setDebounceMs(Started(AtRest).engine, ms),
      now |-> 0, cycle |-> NULL,
      worker |-> [ lastSignalPushMs |-> 0 ],
      seen |-> [ signalsAt |-> NULL, gap |-> NULL, forwarded |-> << >> ],
      loop |-> [ pc |-> "read", first |-> AtRest ] ]

\* the first read of an iteration returned signals at time tm: up to the
\* debounce sleep, or up to the poll sleep
ReadStep(st, m, signals, tm) ==
    LET p == SignalsStep(m, st.worker, tm)
        r == AfterFirstRead(st.engine, signals, tm)
    IN  [ engine |-> r.engine, now |-> tm, cycle |-> r.cycle,
          worker |-> p.worker,
          seen |-> [ SignalsSeen(st.seen, p.emitted, tm) EXCEPT
                        !.forwarded = IF r.processed
                                      THEN CycleStep(m, @, r.cycle) ELSE @ ],
          loop |-> [ pc |-> IF r.pc = "debounce" THEN "confirm" ELSE "read",
                     first |-> signals ] ]

\* the confirmation read returned confirm at time tm: up to the poll sleep
ConfirmStep(st, m, confirm, tm) ==
    LET r == AfterConfirm(st.engine, st.loop.first, confirm, tm)
    IN  [ st EXCEPT !.engine = r.engine, !.now = tm, !.cycle = r.cycle,
                    !.seen.forwarded = IF r.processed
                                       THEN CycleStep(m, @, r.cycle) ELSE @,
                    !.loop.pc = "read" ]

\* one iteration over lines that hold still: the read returns d ms after the
\* last await, and the confirmation read, when one is made, d ms later
IterationStep(st, m, signals, d) ==
    LET a == ReadStep(st, m, signals, st.now + d)
    IN  IF a.loop.pc = "confirm" THEN ConfirmStep(a, m, signals, a.now + d) ELSE a

RECURSIVE RunLoop(_, _, _)
RunLoop(st, m, samples) ==
    IF samples = << >> THEN st
    ELSE RunLoop(IterationStep(st, m, Head(samples).signals, Head(samples).d),
                 m, Tail(samples))

\* a first dial of two pulses sampled every 20 ms (every 40 ms by a loop that
\* debounces), up to the iteration that returned its Cycle
FirstDialSampled ==
    <<Sample(FALSE, FALSE, 20), Sample(TRUE, FALSE, 20), Sample(FALSE, FALSE, 20),
      Sample(TRUE, FALSE, 20), Sample(TRUE, FALSE, 105)>>

LoopStarts(m) ==
    { LoopStarted(ms) : ms \in { <<0>>, <<Ms(2)>> } }
    \cup { RunLoop(LoopStarted(ms), m, FirstDialSampled) : ms \in { <<0>>, <<Ms(2)>> } }

TimedInit ==
    /\ mode \in {"fallback", "worker"}
    /\ \E st \in LoopStarts(mode) :
        /\ engine = st.engine
        /\ now = st.now
        /\ cycle = st.cycle
        /\ worker = st.worker
        /\ seen = st.seen
        /\ loops = << st.loop >>
        /\ burst = [ NoBurst EXCEPT !.until = st.now + LoopSpan ]
    /\ cyclesSinceReset = 0
    /\ running = TRUE
    /\ activePort = TRUE
    /\ loopPromise = (mode = "worker")
    /\ starts = 0
    /\ disc = "none"
    /\ client = NewClient
    /\ clientSeen = NoClientSeen
    /\ called = NULL
    /\ NoApp

\* the loop as it stands at its await
TimedNow ==
    [ engine |-> engine, now |-> now, cycle |-> cycle, worker |-> worker,
      seen |-> seen, loop |-> loops[1] ]

TimedBecomes(st) ==
    /\ engine' = st.engine
    /\ now' = st.now
    /\ cycle' = st.cycle
    /\ worker' = st.worker
    /\ seen' = st.seen
    /\ loops' = << st.loop >>
    /\ UNCHANGED <<cyclesSinceReset, burst>>
    /\ UNCHANGED <<mode, running, activePort, loopPromise, starts, disc>>
    /\ UNCHANGED <<client, clientSeen, called, appVars>>

\* "const signals = await getSignals()" returned, d ms after the loop went
\* to sleep
TimedRead(signals, d) ==
    /\ loops[1].pc = "read"
    /\ now + d <= burst.until
    /\ TimedBecomes(ReadStep(TimedNow, mode, signals, now + d))

\* "const confirm = await getSignals()" returned, d ms after the first read
TimedConfirm(confirm, d) ==
    /\ loops[1].pc = "confirm"
    /\ now + d <= burst.until
    /\ TimedBecomes(ConfirmStep(TimedNow, mode, confirm, now + d))

TimedNext ==
    \/ \E s \in LoopSignals, d \in LoopSteps : TimedRead(s, d)
    \/ \E s \in LoopSignals, d \in LoopSteps : TimedConfirm(s, d)

SpecTimedLoop == TimedInit /\ [][TimedNext]_vars

(***************************************************************************)
(* C1: between two consecutive resets of the edge buffers (resetCycle,     *)
(* resetAll or a reset processStableSignals performs itself) the engine    *)
(* returns a Cycle at most once.                                           *)
(***************************************************************************)
C1_AtMostOneCyclePerBuffer == cyclesSinceReset <= 1

\* a further primary edge arrived on a buffer that was already evaluated
C1_Witness ==
    /\ cyclesSinceReset = 1
    /\ engine.hasEvaluatedCycle
    /\ Len(engine.nsiTimes) >= 5
    /\ cycle = NULL

(***************************************************************************)
(* C4: computeCycle yields nothing for fewer than 4 primary edges, so      *)
(* every Cycle computed or returned has at least 4 primary edges and at    *)
(* least 2 pulses; two edges (digit 1) never give a Cycle.                 *)
(***************************************************************************)
C4_NoCycleBelowFourEdges ==
    /\ Len(engine.nsiTimes) < 4 => computeCycle(engine) = NULL
    /\ \A c \in {cycle, computeCycle(engine)} :
          c # NULL => /\ Len(c[1].nsiTimesMs) >= 4
                      /\ c[1].pulses >= 2
    /\ cycle # NULL => Len(engine.nsiTimes) >= 4

\* three edges reached the 100 ms branch: computation was tried and gave nothing
C4_Witness ==
    /\ Len(engine.nsiTimes) = 3
    /\ engine.hasEvaluatedCycle
    /\ cycle = NULL

\* one notification for the burst, counting half its edges
OneCycleOf(b) ==
    /\ Len(b.cycles) = 1
    /\ b.cycles[1].pulses = b.edges \div 2

(***************************************************************************)
(* C2: every completed dial (a burst of at least 4 primary edges followed  *)
(* by more than 100 ms without one) gives exactly one cycle-ready          *)
(* notification, whose pulseCount is half the edges of the burst (rounded  *)
(* down), for the first dial and for every later one, with and without a   *)
(* secondary line.                                                         *)
(***************************************************************************)
C2_EveryDialOneCycle ==
    (burst.done /\ burst.edges >= 4) => OneCycleOf(burst)

(***************************************************************************)
(* C3: from an initialized engine with the primary line closed and no      *)
(* secondary or suppress edge, n >= 4 primary edges at most 90 ms apart    *)
(* followed by a constant primary line give exactly one Cycle over the     *)
(* whole run; the first sample taken more than 100 ms after the last edge  *)
(* returns it, with pulseCount floor(n/2) (2 pulses and 10.0 Hz for four   *)
(* edges 50 ms apart).                                                     *)
(***************************************************************************)
C3_OneCycleAfterQuiet ==
    ( /\ burst.initClosed /\ ~burst.otherEdges
      /\ burst.started = 1 /\ burst.edges >= 4
      /\ \A g \in burst.gaps : g <= 90 )
    => /\ ~burst.done => burst.totalCycles = 0
       /\ burst.done =>
            /\ burst.totalCycles = 1
            /\ OneCycleOf(burst)
            /\ Some(burst.cycles[1].at) = burst.doneAt
            /\ (burst.edges = 4 /\ burst.gaps = {50}) =>
                  (burst.cycles[1].pulses = 2 /\ burst.cycles[1].fHz10 = 100)

\* four edges 50 ms apart were measured, and the line was sampled again later
C3_Witness ==
    /\ burst.initClosed /\ ~burst.otherEdges /\ burst.started = 1
    /\ burst.edges = 4 /\ burst.gaps = {50}
    /\ burst.done /\ burst.totalCycles = 1
    /\ burst.doneAt # Some(now)
    /\ cycle = NULL

(***************************************************************************)
(* C5: at most one sampling loop is active per engine instance at any      *)
(* time, under every interleaving of start and stop calls (a start issued  *)
(* while another start awaits its initial read; a stop followed by a start *)
(* while an iteration of the earlier loop is suspended).                   *)
(***************************************************************************)
C5_AtMostOneLoop == Len(loops) <= 1

(***************************************************************************)
(* C6: once a line read inside the sampling loop has failed, running is    *)
(* false, exactly one error notification has reached the host, and no      *)
(* line read returns to a loop and no sample is processed until a start    *)
(* is issued again.                                                        *)
(***************************************************************************)
C6_FailureEndsSampling ==
    seen.failed =>
        /\ ~running
        /\ seen.errors = 1
        /\ ~seen.afterFail

(***************************************************************************)
(* C7: an iteration with a debounce whose first and confirmation reads of  *)
(* the primary line disagree does not call processStableSignals and has    *)
(* not changed the engine (line values, edge logs, evaluated flag), also   *)
(* when the secondary or suppress line changed in its first read.          *)
(***************************************************************************)
C7_DisagreementLeavesEngine ==
    \A i \in 1..Len(loops) :
        loops[i].disagreed => (~loops[i].processed /\ ~loops[i].touched)

\* the worker loop abandoned an iteration whose first read showed the
\* secondary and suppress lines changed
C7_Witness ==
    /\ mode = "worker"
    /\ engine.debounceMs > 0
    /\ engine.nsaState # NULL /\ engine.nsrState # NULL
    /\ \E i \in 1..Len(loops) :
        /\ loops[i].pc = "poll"
        /\ loops[i].disagreed
        /\ Some(loops[i].first.ringIndicator) # engine.nsaState
        /\ Some(loops[i].first.dataSetReady) # engine.nsrState

(***************************************************************************)
(* C8: a stop changes only the running flag, and a stop followed by a      *)
(* start with no disconnect in between keeps the engine's three edge logs, *)
(* its evaluated flag and its debounce setting, in both hosts.             *)
(***************************************************************************)
C8_StopStartKeepsEngine == seen.stopKept /\ seen.startKept

(***************************************************************************)
(* C9: when a disconnect has completed no loop activation is left, running *)
(* is false and the engine is fully reset (empty edge logs, evaluated      *)
(* false, line values unknown); the reset did not happen while a loop was  *)
(* still active.                                                           *)
(***************************************************************************)
C9_DisconnectLeavesNothing ==
    /\ ~seen.resetEarly
    /\ seen.disconnected =>
        /\ loops = << >>
        /\ ~running
        /\ engine = resetAll(engine)

(***************************************************************************)
(* C10: a request of MeasurementWorkerClient is resolved only by a         *)
(* response carrying its requestId, with that response's payload ({} when  *)
(* it carries none), or rejected with its error when ok is false; a        *)
(* response whose requestId is unknown or already settled changes nothing, *)
(* and an event, which has no requestId, settles no request.               *)
(***************************************************************************)
C10_MatchedByRequestId ==
    /\ \A id \in 1..Len(client.promises) :
        LET promise == client.promises[id]
            by == clientSeen.by[id]
        IN  /\ promise.state = "resolved" => by # NULL
            /\ by # NULL =>
                 /\ by[1].requestId = Some(id)
                 /\ IF by[1].ok = Some(FALSE)
                    THEN promise = Rejected(ToError(by[1].error))
                    ELSE promise = Resolved(PayloadOf(by[1]))
    /\ ~clientSeen.strayChanged
    /\ ~clientSeen.eventSettled

\* the second request was resolved by its response while the first is still
\* pending, after a response for no pending request and an event had arrived
C10_Witness ==
    /\ Len(client.promises) = 2
    /\ client.promises[1].state = "pending"
    /\ client.promises[2] = Resolved([running |-> TRUE])
    /\ clientSeen.by[2] # NULL
    /\ clientSeen.strayArrived
    /\ clientSeen.eventArrived

(***************************************************************************)
(* C11: the timer of a request runs no earlier than the configured request *)
(* timeout (5000 ms by default) after the request was sent, and only if no *)
(* response with the request's id has arrived; it rejects the request with *)
(* the timeout error and removes it from the pending set, and a response   *)
(* with that id arriving afterwards changes nothing.                       *)
(***************************************************************************)
C11_TimeoutRejects ==
    /\ \A id \in 1..Len(client.promises) :
        clientSeen.timedOutAt[id] # NULL =>
            /\ client.promises[id] = Rejected(TimeoutError)
            /\ id \notin client.pending
            /\ clientSeen.by[id] = NULL
            /\ clientSeen.timedOutAt[id][1] >= clientSeen.sentAt[id] + client.requestTimeoutMs
            /\ client.requestTimeoutMs \in {100, DEFAULT_REQUEST_TIMEOUT_MS}
    /\ ~clientSeen.lateChanged

\* with the default timeout the first request timed out 5000 ms after it was
\* sent, and its response arrived after that
C11_Witness ==
    /\ client.requestTimeoutMs = 5000
    /\ Len(client.promises) >= 1
    /\ clientSeen.sentAt[1] = 0
    /\ clientSeen.timedOutAt[1] = Some(5000)
    /\ clientSeen.lateArrived

(***************************************************************************)
(* C12 as stated: every inbound message with a finite requestId whose      *)
(* handling is over has got exactly one response.                          *)
(***************************************************************************)
C12_EveryMessageAnswered ==
    \A k \in 1..Len(worker.log) :
        (worker.log[k].requestId # NULL /\ worker.log[k].pc \in {"done", "dropped"})
            => worker.log[k].responses = 1

(***************************************************************************)
(* C12: for every inbound message with a string type and a finite          *)
(* requestId the worker posts nothing while the command is in progress and *)
(* exactly one response, carrying that requestId, when it is over: ok =    *)
(* true with the result if the dispatch returned, and no error event; ok = *)
(* false with the error {code, message} if it threw (code WORKER_ERROR     *)
(* unless the error has a non-empty code of its own), together with        *)
(* exactly one error event.  A start while no port is held is answered     *)
(* with "Port is not connected.".  A message without a finite requestId    *)
(* gets no response, one without a string type neither response nor event. *)
(***************************************************************************)
C12_OneResponsePerRequest ==
    \A k \in 1..Len(worker.log) :
        LET entry == worker.log[k]
        IN  /\ entry.requestId = NULL => entry.responses = 0
            /\ entry.type = NULL => (entry.responses = 0 /\ entry.errorEvents = 0)
            /\ entry.pc # "done" => (entry.responses = 0 /\ entry.errorEvents = 0)
            /\ (entry.pc = "done" /\ entry.outcome[1].ok) => entry.errorEvents = 0
            /\ (entry.pc = "done" /\ ~entry.outcome[1].ok) => entry.errorEvents = 1
            /\ (entry.pc = "done" /\ entry.requestId # NULL) =>
                 /\ entry.responses = 1
                 /\ entry.response[1].requestId = entry.requestId
                 /\ entry.outcome[1].ok =>
                       /\ entry.response[1].ok = Some(TRUE)
                       /\ entry.response[1].payload = Some(entry.outcome[1].value)
                 /\ ~entry.outcome[1].ok =>
                       LET thrown == entry.outcome[1].value
                       IN  /\ entry.response[1].ok = Some(FALSE)
                           /\ entry.response[1].error[1].message = thrown.message
                           /\ entry.response[1].error[1].code =
                                 (IF thrown.code \in {NULL, Some("")}
                                  THEN "WORKER_ERROR" ELSE thrown.code[1])
                 /\ (entry.type = Some("start") /\ ~entry.hadPort /\ ~worker.disposed) =>
                       /\ entry.response[1].ok = Some(FALSE)
                       /\ entry.response[1].error[1] =
                             [ code |-> "WORKER_ERROR", message |-> "Port is not connected." ]

\* a start without a port was answered with the error, and a connect that
\* failed with an error carrying its own code was answered with that code
C12_Witness ==
    /\ Len(worker.log) = 2
    /\ \E k \in 1..2 :
          /\ worker.log[k].type = Some("start")
          /\ ~worker.log[k].hadPort
          /\ worker.log[k].responses = 1
          /\ worker.log[k].errorEvents = 1
    /\ \E k \in 1..2 :
          /\ worker.log[k].type = Some("connectPort")
          /\ worker.log[k].pc = "done"
          /\ worker.log[k].response # NULL
          /\ worker.log[k].response[1].error # NULL
          /\ worker.log[k].response[1].error[1].code = "E_DEVICE"

\* the sum of the gaps t[j+1] - t[j] for the positions j in S
RECURSIVE GapSum(_, _)
GapSum(t, S) ==
    IF S = {} THEN 0
    ELSE LET j == CHOOSE x \in S : TRUE
         IN  (t[j + 1] - t[j]) + GapSum(t, S \ {j})

\* the gaps that count as open: from the third edge on, every other one
OpenGaps(n) == { j \in 3..(n - 1) : j % 2 = 1 }

\* the gaps that count as closed: from the second edge on, every other one
ClosedGaps(n) == { j \in 2..(n - 1) : j % 2 = 0 }

\* v is num / den rounded to the nearest whole number, halves upwards
IsRounded(v, num, den) ==
    /\ 2 * v * den - 2 * num <= den
    /\ 2 * v * den - 2 * num > -den

(***************************************************************************)
(* C13: for a primary edge log of n >= 4 edges computeCycle returns        *)
(* pulses = floor(n / 2), a frequency of 1000 / ((openTotal + closedTotal) *)
(* / max(1, n/2 - 1)) rounded to one decimal and a closed duty of          *)
(* round(100 * closedTotal / (openTotal + closedTotal)), both 0 when the   *)
(* total is 0, where openTotal sums t[i+1] - t[i] and closedTotal sums     *)
(* t[i] - t[i-1] over i = 2, 4, 6, ... (counting from 0) on the timestamps *)
(* taken relative to the first edge; six edges 50 ms apart give 3 pulses,  *)
(* 10.0 Hz and 50 %.                                                       *)
(***************************************************************************)
C13_CycleMetrics ==
    cycle # NULL =>
        LET n == Len(engine.nsiTimes)
            c == cycle[1]
            t == [ i \in 1..n |-> engine.nsiTimes[i] - engine.nsiTimes[1] ]
            openTotal == GapSum(t, OpenGaps(n))
            closedTotal == GapSum(t, ClosedGaps(n))
            total == openTotal + closedTotal
            \* twice max(1, n/2 - 1)
            periods2 == IF n - 2 > 2 THEN n - 2 ELSE 2
        IN  /\ n >= 4
            /\ c.nsiTimesMs = t
            /\ c.pulses = n \div 2
            /\ total = 0 => (c.fHz10 = 0 /\ c.dutyClosed = 0)
            /\ total > 0 =>
                 /\ IsRounded(c.fHz10, 5000 * periods2, total)
                 /\ IsRounded(c.dutyClosed, 100 * closedTotal, total)
            /\ (n = 6 /\ \A j \in 1..5 : t[j + 1] - t[j] = 50) =>
                 (c.pulses = 3 /\ c.fHz10 = 100 /\ c.dutyClosed = 50)

\* the metrics of six edges 50 ms apart were computed, the first edge not
\* being at time 0
C13_Witness ==
    /\ cycle # NULL
    /\ Len(engine.nsiTimes) = 6
    /\ engine.nsiTimes[1] > 0
    /\ \A j \in 1..5 : engine.nsiTimes[j + 1] - engine.nsiTimes[j] = 50
    /\ cycle[1].fHz10 = 100

\* w is among the warnings of Cycle c
Warns(c, w) == \E i \in 1..Len(c.warnings) : c.warnings[i] = w

(***************************************************************************)
(* C14: the warnings of a Cycle contain DIAL_SPEED exactly when the        *)
(* frequency the Cycle reports (rounded to one decimal) is below 7 Hz or   *)
(* above 13 Hz.                                                            *)
(***************************************************************************)
C14_DialSpeedByReportedFrequency ==
    cycle # NULL =>
        (Warns(cycle[1], WARNING_DIAL_SPEED)
            <=> (cycle[1].fHz10 < 70 \/ cycle[1].fHz10 > 130))

(***************************************************************************)
(* C15: the warnings of a Cycle contain PULSE_PAUSE_RATIO exactly when its *)
(* closed duty is below 10 % or above 70 %; no warning kind appears twice, *)
(* and when both are present DIAL_SPEED comes first.                       *)
(***************************************************************************)
C15_PulsePauseRatioWarning ==
    cycle # NULL =>
        LET c == cycle[1]
        IN  /\ Warns(c, WARNING_PULSE_PAUSE_RATIO)
                  <=> (c.dutyClosed < 10 \/ c.dutyClosed > 70)
            /\ \A i, j \in 1..Len(c.warnings) :
                  c.warnings[i] = c.warnings[j] => i = j
            /\ (Warns(c, WARNING_DIAL_SPEED) /\ Warns(c, WARNING_PULSE_PAUSE_RATIO))
                  => c.warnings = <<WARNING_DIAL_SPEED, WARNING_PULSE_PAUSE_RATIO>>

\* a fast dial with short open phases carries both warnings
C15_Witness ==
    /\ cycle # NULL
    /\ Len(cycle[1].warnings) = 2
    /\ cycle[1].dutyClosed > 70
    /\ cycle[1].dutyClosed < 100

(***************************************************************************)
(* C16: for every Cycle computed from primary edge timestamps that do not  *)
(* decrease (four or more of them, at any spacing, equal timestamps        *)
(* included) the closed duty is a whole number from 0 to 100 and the       *)
(* frequency is not negative.                                              *)
(***************************************************************************)
C16_DutyAndFrequencyInRange ==
    (cycle # NULL /\ \A j \in 1..(Len(engine.nsiTimes) - 1) :
                        engine.nsiTimes[j] <= engine.nsiTimes[j + 1])
        => /\ cycle[1].dutyClosed \in 0..100
           /\ cycle[1].fHz10 >= 0

\* a log whose open phases all have length 0 gives a duty of 100 %, and one
\* of its closed phases has length 0 too
C16_Witness ==
    /\ cycle # NULL
    /\ Len(engine.nsiTimes) = 5
    /\ cycle[1].dutyClosed = 100
    /\ engine.nsiTimes[2] = engine.nsiTimes[3]

(***************************************************************************)
(* C17: in every Cycle the digit is 0 exactly when the pulse count is 10,  *)
(* and it is the pulse count for every pulse count from 1 to 9.            *)
(***************************************************************************)
C17_DigitOfPulses ==
    cycle # NULL =>
        /\ cycle[1].digit = 0 <=> cycle[1].pulses = 10
        /\ cycle[1].pulses \in 1..9 => cycle[1].digit = cycle[1].pulses

\* a dial of ten pulses was computed
C17_Witness ==
    /\ cycle # NULL
    /\ Len(engine.nsiTimes) = 20
    /\ cycle[1].pulses = 10
    /\ cycle[1].digit = 0

(***************************************************************************)
(* C18: after setDebounceMs(ms), whatever ms is (negative, above 10, with  *)
(* a fraction, not a number), debounceMs holds a whole number of           *)
(* milliseconds from 0 to 10 (0 for -4, 10 for 20), and line values, edge  *)
(* logs and evaluated flag are as they were before the call.               *)
(***************************************************************************)
C18_SetDebounceClamps ==
    (called # NULL /\ called[1].op = "setDebounceMs") =>
        /\ engine.debounceMs \in { Ms(n) : n \in 0..10 }
        /\ called[1].ms = <<Ms(-4)>> => engine.debounceMs = 0
        /\ called[1].ms = <<Ms(20)>> => engine.debounceMs = Ms(10)
        /\ engine = [ called[1].before EXCEPT !.debounceMs = engine.debounceMs ]

(***************************************************************************)
(* C19: initializeFromSignals returns the "waiting for first closure"      *)
(* advisory exactly when the snapshot's primary line is open; a start that *)
(* read the primary line open handed exactly one advisory to its host (and *)
(* none when it read it closed) and set running.                           *)
(***************************************************************************)
C19_OpenLineAdvisory ==
    /\ \A signals \in HostSignals :
          initializeFromSignals(engine, signals).warningKey # NULL
              <=> ~signals.dataCarrierDetect
    /\ \A signals \in HostSignals :
          initializeFromSignals(engine, signals).warningKey
              \in {NULL, Some(WARNING_NSI_OPEN)}
    /\ seen.started # NULL =>
          /\ seen.started[1].advisories = (IF seen.started[1].open THEN 1 ELSE 0)
          /\ seen.started[1].running

C19_Witness ==
    /\ seen.started # NULL
    /\ seen.started[1].open
    /\ seen.started[1].advisories = 1
    /\ engine.nsiState = Some(FALSE)
    /\ running
    /\ loops # << >>

(***************************************************************************)
(* C20: from any engine state, whatever its debounce setting, resetCycle   *)
(* leaves the three edge logs empty and the evaluated flag false, keeps    *)
(* the three line values and the debounce setting, and a second resetCycle *)
(* right after the first changes nothing.                                  *)
(***************************************************************************)
C20_ResetCycleKeepsSettings ==
    /\ \A ms \in DebounceArguments :
          LET e == setDebounceMs(engine, ms)
              r == resetCycle(e)
          IN  /\ r.nsiTimes = << >> /\ r.nsaTimes = << >> /\ r.nsrTimes = << >>
              /\ ~r.hasEvaluatedCycle
              /\ Settings(r) = Settings(e)
              /\ resetCycle(r) = r
    /\ (called # NULL /\ called[1].op = "resetCycle") =>
          /\ engine.nsiTimes = << >>
          /\ engine.nsaTimes = << >>
          /\ engine.nsrTimes = << >>
          /\ ~engine.hasEvaluatedCycle
          /\ Settings(engine) = called[1].settings
          /\ called[1].again # NULL => engine = called[1].again[1]

C20_Witness ==
    /\ called # NULL
    /\ called[1].op = "resetCycle"
    /\ called[1].again # NULL
    /\ called[1].settings = <<Some(TRUE), Some(TRUE), Some(FALSE), 0>>
    /\ engine.nsiState = Some(TRUE)
    /\ now > 0

\* the last n elements of s, all of s when it is shorter
LastN(s, n) == IF Len(s) <= n THEN s ELSE SubSeq(s, Len(s) - n + 1, Len(s))

(***************************************************************************)
(* C21: the diagram history never holds more than 10 cycles, and it is     *)
(* always the last (at most 10) cycles added since the last clear, in the  *)
(* order they were added: an add on a full history drops the oldest one.   *)
(***************************************************************************)
C21_HistoryIsLastTen ==
    /\ Len(diagram.cycles) <= 10
    /\ diagram.cycles = LastN(shown.added, 10)

C21_Witness ==
    /\ Len(shown.added) = 12
    /\ Len(diagram.cycles) = 10
    /\ shown.added[1].digit # shown.added[3].digit
    /\ diagram.cycles[1] = shown.added[3]

\* the last 10 cycles added since the last clear have one digit
TenAlike(added) ==
    /\ Len(added) >= 10
    /\ \A i \in (Len(added) - 9)..Len(added) : added[i].digit = added[Len(added)].digit

(***************************************************************************)
(* C22: the two analysis buttons are enabled exactly when the last 10      *)
(* cycles added since the last clear all have the same digit, and an       *)
(* analysis asked for in any other state was rejected with an error.       *)
(***************************************************************************)
C22_AnalysisWhenTenAlike ==
    /\ ui.analysisEnabled <=> TenAlike(shown.added)
    /\ isAnalysisReady(diagram) <=> TenAlike(shown.added)
    /\ shown.asked # NULL =>
          (shown.asked[1].outcome = "error" <=> ~TenAlike(shown.added))

C22_Witness ==
    /\ shown.asked # NULL
    /\ shown.asked[1].outcome = "shown"
    /\ Len(shown.added) = 11
    /\ shown.added[1].digit # shown.added[2].digit
    /\ ui.analysisEnabled

(***************************************************************************)
(* C23: isOpen is true exactly from a connect whose open and RTS assertion *)
(* succeeded until the next disconnect: a failed connect leaves isOpen as  *)
(* it was, a disconnect that found a port ends with isOpen false having    *)
(* closed that port once, whatever failed on the way, and a disconnect     *)
(* that found no port made no call on any port.                            *)
(***************************************************************************)
C23_IsOpenFollowsConnect ==
    /\ serial.done # NULL =>
          LET d == serial.done[1]
          IN  /\ (d.op = "connect" /\ d.ok) => d.isOpen
              /\ (d.op = "connect" /\ ~d.ok) => d.isOpen = d.wasOpen
              /\ d.op = "disconnect" => ~d.isOpen
              /\ (d.op = "disconnect" /\ d.found # NULL) =>
                    /\ d.closes = 1
                    /\ d.closed = 1
              /\ (d.op = "disconnect" /\ d.found = NULL) => d.closes = 0
    /\ (serial.calls = << >> /\ serial.done # NULL) =>
          (serial.port # NULL <=> (serial.done[1].op = "connect" /\ serial.done[1].isOpen))

(***************************************************************************)
(* C24: the evaluated flag is true only if processStableSignals has        *)
(* returned a Cycle since the edge logs were last reset; a buffer whose    *)
(* computation yields nothing (three primary edges, more than 100 ms old)  *)
(* is not marked evaluated.                                                *)
(***************************************************************************)
C24_EvaluatedMeansCycleReturned ==
    engine.hasEvaluatedCycle => cyclesSinceReset >= 1

\* the processStableSignals call that just returned made this reset
ResetBy(kind) ==
    called # NULL /\ called[1].op = "processStableSignals" /\ called[1].reset = kind

\* every entry of an edge log is the timestamp t
OnlyAt(log, t) == \A i \in 1..Len(log) : log[i] = t

(***************************************************************************)
(* C25: a processStableSignals call that sees the secondary line change    *)
(* while nsaTimes already holds two or more entries clears the three edge  *)
(* logs and the evaluated flag before it records the edge: afterwards      *)
(* nsaTimes holds exactly the timestamp of the call, and nsiTimes and      *)
(* nsrTimes hold no edge from before the call.                             *)
(***************************************************************************)
C25_SecondaryOverflowRestarts ==
    ResetBy("nsa") =>
        /\ engine.nsaTimes = <<now>>
        /\ OnlyAt(engine.nsiTimes, now)
        /\ OnlyAt(engine.nsrTimes, now)
        /\ ~engine.hasEvaluatedCycle

\* the third secondary edge arrived in the same sample as a primary edge
C25_Witness ==
    /\ ResetBy("nsa")
    /\ engine.nsaTimes = <<now>>
    /\ engine.nsiTimes = <<now>>

\* the three edge logs are empty and the buffer counts as not evaluated
EmptyBuffers(e) ==
    /\ e.nsiTimes = << >>
    /\ e.nsaTimes = << >>
    /\ e.nsrTimes = << >>
    /\ ~e.hasEvaluatedCycle

(***************************************************************************)
(* C26: when #maybeFinalize finds nsaTimes empty, nsiTimes non-empty, more *)
(* than 90 ms since the last primary edge, and fewer than four primary     *)
(* edges or an evaluated buffer, the processStableSignals call clears the  *)
(* three edge logs and the evaluated flag and returns no Cycle; and with   *)
(* no secondary edge in the buffer, the first sample after a returned      *)
(* Cycle that changes no line leaves the engine with empty buffers.        *)
(***************************************************************************)
C26_StaleBufferIsDiscarded ==
    /\ []((ResetBy("short") \/ ResetBy("evaluated")) =>
            (EmptyBuffers(engine) /\ cycle = NULL))
    /\ [][ (/\ cycle # NULL
            /\ engine.nsaTimes = << >>
            /\ now' # now
            /\ Settings(engine') = Settings(engine))
           => (EmptyBuffers(engine') /\ cycle' = NULL) ]_vars

\* the idle sample after a Cycle has emptied the buffers
C26_Witness ==
    /\ ResetBy("evaluated")
    /\ EmptyBuffers(engine)
    /\ engine.nsiState # NULL

\* milliseconds between the last primary edge in the buffer and the clock
SinceLastPrimary == now - engine.nsiTimes[Len(engine.nsiTimes)]

(***************************************************************************)
(* C27: processStableSignals returns a Cycle only when more than 100 ms    *)
(* lie between the most recent primary edge and the call: never at 100 ms  *)
(* or less, and never from a sample that itself records a primary edge.    *)
(***************************************************************************)
C27_CycleOnlyAfter100Ms ==
    cycle # NULL =>
        /\ engine.nsiTimes # << >>
        /\ SinceLastPrimary > 100
        /\ engine.nsiTimes[Len(engine.nsiTimes)] # now

\* a Cycle returned 150 ms after the last primary edge: the samples at 50 ms
\* and at exactly 100 ms returned none
C27_Witness ==
    /\ cycle # NULL
    /\ engine.nsiTimes # << >>
    /\ SinceLastPrimary = 150

\* sequence a is an initial part of sequence b
IsPrefix(a, b) ==
    /\ Len(a) <= Len(b)
    /\ \A i \in 1..Len(a) : a[i] = b[i]

(***************************************************************************)
(* C28: the processStableSignals call that returns a Cycle clears no edge  *)
(* log: afterwards the three logs still hold every edge they held before,  *)
(* the Cycle can be computed again from them, and the evaluated flag is    *)
(* true.                                                                   *)
(***************************************************************************)
C28_ReturningCycleKeepsLogs ==
    /\ [](cycle # NULL =>
            /\ engine.hasEvaluatedCycle
            /\ Len(engine.nsiTimes) >= 4
            /\ computeCycle(engine) = cycle)
    /\ [][ cycle' # NULL =>
            /\ IsPrefix(engine.nsiTimes, engine'.nsiTimes)
            /\ IsPrefix(engine.nsaTimes, engine'.nsaTimes)
            /\ IsPrefix(engine.nsrTimes, engine'.nsrTimes) ]_vars

\* a Cycle was returned from a buffer with edges of all three lines
C28_Witness ==
    /\ cycle # NULL
    /\ engine.hasEvaluatedCycle
    /\ Len(engine.nsiTimes) >= 4
    /\ engine.nsaTimes # << >>
    /\ engine.nsrTimes # << >>

\* a step leaves a log as it was, or appends the timestamp of the sample to
\* it when the value of its line changed
Grows(before, after, lineBefore, lineAfter) ==
    \/ after = before
    \/ /\ after = Append(before, now')
       /\ lineBefore # NULL
       /\ lineAfter # NULL
       /\ lineAfter # lineBefore

\* the three logs of engine', grown from the logs nsi, nsa and nsr
GrownFrom(nsi, nsa, nsr) ==
    /\ Grows(nsi, engine'.nsiTimes, engine.nsiState, engine'.nsiState)
    /\ Grows(nsa, engine'.nsaTimes, engine.nsaState, engine'.nsaState)
    /\ Grows(nsr, engine'.nsrTimes, engine.nsrState, engine'.nsrState)

C30_StopEndsLoop ==
    seen.sinceStop \in {"none", "idle", "once"}

(***************************************************************************)
(* C40: in every engine state reached through initializeFromSignals,       *)
(* processStableSignals, resetCycle and resetAll, nsaTimes holds at most   *)
(* two entries.                                                            *)
(***************************************************************************)
C40_AtMostTwoSecondaryEdges ==
    Len(engine.nsaTimes) <= 2

\* two secondary edges are in the buffer, next to primary edges
C40_Witness ==
    /\ Len(engine.nsaTimes) = 2
    /\ Len(engine.nsiTimes) >= 2

\* an edge time of a log, taken from the first primary edge and never negative
Normalized(t) == Max(0, t - engine.nsiTimes[1])

(***************************************************************************)
(* C33: in a Cycle that was produced, nsaOpenMs is the second entry of     *)
(* nsaTimes when that log holds two or more entries, its only entry when   *)
(* it holds one, and null when it is empty; nsrOnMs is the first entry of  *)
(* nsrTimes, or null when there is none; both are taken from the first     *)
(* primary edge and are never negative; hasNsa and hasNsr are true exactly *)
(* when the value is not null.                                             *)
(***************************************************************************)
C33_SecondaryAndSuppressTimes ==
    cycle # NULL =>
        /\ cycle[1].nsaOpenMs =
              (IF Len(engine.nsaTimes) >= 2 THEN Some(Normalized(engine.nsaTimes[2]))
               ELSE IF Len(engine.nsaTimes) = 1 THEN Some(Normalized(engine.nsaTimes[1]))
               ELSE NULL)
        /\ cycle[1].nsrOnMs =
              (IF Len(engine.nsrTimes) >= 1 THEN Some(Normalized(engine.nsrTimes[1]))
               ELSE NULL)
        /\ cycle[1].nsaOpenMs # NULL => cycle[1].nsaOpenMs[1] >= 0
        /\ cycle[1].nsrOnMs # NULL => cycle[1].nsrOnMs[1] >= 0
        /\ cycle[1].hasNsa = (cycle[1].nsaOpenMs # NULL)
        /\ cycle[1].hasNsr = (cycle[1].nsrOnMs # NULL)

\* a Cycle from a buffer with two secondary edges, the first of them before
\* the first primary edge, and a suppress edge
C33_Witness ==
    /\ cycle # NULL
    /\ Len(engine.nsaTimes) = 2
    /\ engine.nsaTimes[1] < engine.nsiTimes[1]
    /\ cycle[1].nsaOpenMs # NULL
    /\ cycle[1].nsaOpenMs[1] > 0
    /\ cycle[1].hasNsr

\* the three edge logs of an engine
Logs(e) == <<e.nsiTimes, e.nsaTimes, e.nsrTimes>>

\* the line values an engine holds after it was given a snapshot
LineValues(signals) ==
    <<Some(signals.dataCarrierDetect), Some(signals.ringIndicator),
      Some(signals.dataSetReady)>>

\* the last call was op
Called(op) == called # NULL /\ called[1].op = op

(***************************************************************************)
(* C34: initializeFromSignals stores the three line values of its snapshot *)
(* and appends nothing to any edge log, whatever the line values were      *)
(* before; a processStableSignals call with the snapshot the engine        *)
(* already holds records no edge; and a line whose stored value is unknown *)
(* takes the first sampled value without an edge.                          *)
(***************************************************************************)
C34_InitializeRecordsNoEdge ==
    /\ Called("initializeFromSignals") =>
          /\ Logs(engine) = Logs(called[1].before)
          /\ <<engine.nsiState, engine.nsaState, engine.nsrState>>
                = LineValues(called[1].signals)
    /\ Called("processStableSignals") =>
          LET b == called[1].before
              s == called[1].signals
          IN  /\ <<b.nsiState, b.nsaState, b.nsrState>> = LineValues(s)
                    => Logs(engine) = Logs(b)
              /\ b.nsiState = NULL =>
                    /\ engine.nsiState = Some(s.dataCarrierDetect)
                    /\ engine.nsiTimes = b.nsiTimes
              /\ b.nsaState = NULL =>
                    /\ engine.nsaState = Some(s.ringIndicator)
                    /\ engine.nsaTimes = b.nsaTimes
              /\ b.nsrState = NULL =>
                    /\ engine.nsrState = Some(s.dataSetReady)
                    /\ engine.nsrTimes = b.nsrTimes

\* initializeFromSignals changed the value of every line of an engine that
\* held a primary edge
C34_Witness ==
    /\ Called("initializeFromSignals")
    /\ called[1].before.nsiTimes # << >>
    /\ called[1].before.nsiState # NULL
    /\ called[1].before.nsiState # engine.nsiState
    /\ called[1].before.nsaState # engine.nsaState
    /\ called[1].before.nsrState # engine.nsrState

\* the client with its timers running: a timer that is due fires, and time
\* goes on while a timer is set
SpecClientTimed ==
    /\ SpecClient
    /\ WF_vars(ClTick)
    /\ \A id \in 1..MaxRequests : WF_vars(ClTimeout(id))

\* what settled the promise of request id: the response that carried its
\* id, its own timer, or dispose()
SettledInTurn(id) ==
    \/ /\ clientSeen.by[id] # NULL
       /\ clientSeen.by[id][1].requestId = Some(id)
    \/ /\ clientSeen.timedOutAt[id] # NULL
       /\ client.promises[id] = Rejected(TimeoutError)
    \/ client.promises[id] = Rejected("Measurement worker disposed.")

(***************************************************************************)
(* C38: every request of a MeasurementWorkerClient gets a requestId that   *)
(* no earlier request of the client had; its promise is settled once, by   *)
(* the response with its id, by its timeout or by dispose(), after which   *)
(* neither a response nor the timer can reach it again; and no request     *)
(* stays pending for ever.                                                 *)
(***************************************************************************)
C38_EveryRequestSettlesOnce ==
    /\ [](/\ Len(client.promises) = client.nextRequestId - 1
          /\ client.pending \subseteq 1..Len(client.promises)
          /\ \A id \in 1..Len(client.promises) :
                /\ (client.promises[id].state = "pending") = (id \in client.pending)
                /\ client.timers[id] # NULL => id \in client.pending
                /\ id \notin client.pending => SettledInTurn(id))
    /\ \A id \in 1..MaxRequests :
          (id \in client.pending) ~> (id \notin client.pending)

\* one request was answered and another was rejected by dispose()
C38_Witness ==
    /\ Len(client.promises) = 2
    /\ client.pending = {}
    /\ client.promises[1] = Rejected("Measurement worker disposed.")
    /\ client.promises[2].state = "resolved"

(***************************************************************************)
(* C36: in the measurement worker, under every interleaving of             *)
(* connectPort, start, stop and disconnect requests, running is true only  *)
(* while a port is attached and a polling loop is active.                  *)
(***************************************************************************)
C36_RunningOnlyWithPortAndLoop ==
    running => (activePort /\ loopPromise)

\* message k was a connectPort whose port.open() or port.setSignals() rejected
ConnectFailed(k) ==
    /\ worker.log[k].type = Some("connectPort")
    /\ worker.log[k].pc = "done"
    /\ worker.log[k].outcome # NULL
    /\ ~worker.log[k].outcome[1].ok
    /\ worker.log[k].outcome[1].value \in IoErrors

(***************************************************************************)
(* C37: after a connectPort request that failed because opening the port   *)
(* or asserting RTS failed, and with no other connectPort request, the     *)
(* worker holds no active port, running is false, and a start request      *)
(* that follows is answered with the error 'Port is not connected.'.       *)
(***************************************************************************)
C37_FailedConnectLeavesNoPort ==
    \A k \in 1..Len(worker.log) :
        (/\ ConnectFailed(k)
         /\ \A j \in 1..Len(worker.log) :
               j # k => worker.log[j].type # Some("connectPort"))
        => /\ ~activePort
           /\ ~running
           /\ \A j \in (k + 1)..Len(worker.log) :
                 (worker.log[j].type = Some("start") /\ worker.log[j].pc = "done")
                 => worker.log[j].outcome = Some(Throw(Error("Port is not connected.")))

C31_DebounceFixedAtIterationBegin ==
    [][ \A i \in 1..Len(loops) :
            ( /\ loops[i].pc = "read"
              /\ Len(loops') = Len(loops)
              /\ loops'[i].pc # "read" )
                => loops[i].atBegin = Some(engine.debounceMs) ]_vars

\* C32: the sampling loop forwards every Cycle that processStableSignals
\* returns to the cycle-ready observer exactly once, in the order the Cycles
\* were produced and in the step that produced it (so before the next sample
\* is read), and it notifies the cycle-ready observer at no other time: a
\* step of the loop that got a Cycle adds that Cycle, as the host hands it
\* on, to the end of the observer's notifications and nothing else, and a
\* step that got none leaves them as they are.
C32_EveryCycleForwardedOnce ==
    [][ seen'.forwarded =
            IF cycle' # NULL
            THEN Append(seen.forwarded, CyclePayload(mode, cycle'[1]))
            ELSE seen.forwarded ]_vars

\* the loop has forwarded a second Cycle in the step just taken, after
\* samples that returned none
C32_Witness ==
    /\ Len(seen.forwarded) = 2
    /\ cycle # NULL
    /\ seen.forwarded[2] = CyclePayload(mode, cycle[1])
    /\ now > 185 + 105

\* C35: any two consecutive notifications of the signal-change observer are
\* at least 33 ms of clock time apart, in the worker loop and in the
\* foreground loop.
C35_SignalNotificationsThrottled ==
    seen.gap # NULL => seen.gap[1] >= SIGNAL_PUSH_INTERVAL_MS

====
